---- MODULE Spec2Model ----
(***************************************************************************)
(* Model of the image authenticity pipeline of zioder/cardamagedetection:  *)
(* the request handler POST chains analyzeMetadata, analyzeForensics (a    *)
(* fan-out over the forensic sub-analyses) and scoreResults.               *)
(*                                                                         *)
(* Numbers.  Severities, confidences and percentages are integers.  The    *)
(* risk score is kept in hundredths (the weights 0.8, 1.3, 0.95, 0.4 and   *)
(* 0.5 are exact in hundredths), the AI-likelihood accumulator in tenths   *)
(* (weight 1.2), and every comparison and Math.round is done on exact      *)
(* rationals by cross-multiplication.  ELA variance and hotspot percentage *)
(* are in tenths, texture and frequency ratios in percent, the texture     *)
(* naturalness exactly, in units of 1/25600.                               *)
(*                                                                         *)
(* Strings.  A Software string or a PNG text is the set of the (modelled)  *)
(* keywords it contains; String.includes(k) is membership.                 *)
(***************************************************************************)
EXTENDS Integers, Sequences, FiniteSets, TLC

VARIABLES
    pc,                 \* position of the request handler POST
    image,              \* the submitted image (request body)
    clock,              \* the wall clock read by analyzeTimestamps (new Date())
    metadataAnalysis,   \* POST: const metadataAnalysis
    fpc,                \* position inside analyzeForensics
    task,               \* the promises of the sub-analyses started by analyzeForensics
    forensicsAnalysis,  \* POST: const forensicsAnalysis
    result,             \* POST: const result (the VerificationResult)
    response,           \* what POST returned
    call,               \* a call of a helper of lib/utils or lib/metadata-analyzer: its arguments
    ret                 \* what that call returned, or where its byte walk stands

vars == <<pc, image, clock, metadataAnalysis, fpc, task, forensicsAnalysis, result, response,
          call, ret>>

\* an optional value that is undefined / a field that is not there
Absent == [present |-> FALSE]
Has(x) == x.present

Max(a, b) == IF a >= b THEN a ELSE b
Min(a, b) == IF a <= b THEN a ELSE b
Abs(a) == IF a >= 0 THEN a ELSE -a

RECURSIVE SumSeq(_)
SumSeq(s) == IF s = <<>> THEN 0 ELSE Head(s) + SumSeq(Tail(s))

Some(f, P(_)) == \E i \in 1..Len(f) : P(f[i])
Count(f, P(_)) == Cardinality({i \in 1..Len(f) : P(f[i])})

(***************************************************************************)
(* Finding (types/index.ts)                                                *)
(***************************************************************************)
Finding(t, s, c, m) == [type |-> t, severity |-> s, category |-> c, message |-> m]

(***************************************************************************)
(* constants/ai-tools: the keyword lists, restricted to one or two         *)
(* keywords per list, in the key order of AI_TOOLS_SIGNATURES.             *)
(***************************************************************************)
AI_TOOLS_SIGNATURES ==
    << [category |-> "DIFFUSION",    tools |-> <<"stable diffusion">>],
       [category |-> "GENERATIVE",   tools |-> <<"midjourney">>],
       [category |-> "EDITING",      tools |-> <<"photoshop">>],
       [category |-> "EXPORT_TOOLS", tools |-> <<"screenshot", "preview">>],
       [category |-> "AI_MARKERS",   tools |-> <<"ai generated", "steps:">>] >>

EXPORT_TOOLS == AI_TOOLS_SIGNATURES[4].tools

\* keywords of PNG_AI_CHUNK_KEYWORDS that the modelled texts can contain
PNG_AI_CHUNK_KEYWORDS == <<"steps:", "sampler:", "alchemy">>

\* keywords of analyzePNGSpecific's aiKeywords that the modelled texts can contain
aiKeywords == <<"steps:", "sampler:", "firefly">>

Includes(str, kw) == kw \in str

IncludesAny(str, list) == \E i \in 1..Len(list) : Includes(str, list[i])

categoryConfidence(category) ==
    IF category = "DIFFUSION" \/ category = "GENERATIVE" THEN 95
    ELSE IF category = "AI_MARKERS" THEN 90
    ELSE IF category = "EDITING" THEN 40 ELSE 30

\* category.replace('_', ' ').toLowerCase()
categoryType(category) ==
    CASE category = "DIFFUSION" -> "diffusion"
      [] category = "GENERATIVE" -> "generative"
      [] category = "EDITING" -> "editing"
      [] category = "EXPORT_TOOLS" -> "export tools"
      [] OTHER -> "ai markers"

\* detectAITool looking at the AI_MARKERS list only
detectAITool_markersOnly(software) ==
    IF Has(software) /\ IncludesAny(software.str, AI_TOOLS_SIGNATURES[5].tools)
    THEN [detected |-> TRUE, type |-> "ai markers", confidence |-> 90]
    ELSE [detected |-> FALSE]

\* software: Absent, or [present |-> TRUE, str |-> set of contained keywords]
detectAITool(software) ==
    IF ~Has(software) THEN [detected |-> FALSE]
    ELSE LET hit(c) == IncludesAny(software.str, AI_TOOLS_SIGNATURES[c].tools)
             hits == {c \in 1..Len(AI_TOOLS_SIGNATURES) : hit(c)}
         IN IF hits = {} THEN [detected |-> FALSE]
            ELSE LET c == CHOOSE x \in hits : \A y \in hits : x <= y
                 IN [detected |-> TRUE,
                     type |-> categoryType(AI_TOOLS_SIGNATURES[c].category),
                     confidence |-> categoryConfidence(AI_TOOLS_SIGNATURES[c].category)]

isExportTool(software) ==
    Has(software) /\ IncludesAny(software.str, EXPORT_TOOLS)

(***************************************************************************)
(* lib/utils: parsePNGChunks, at the level of chunks.  A PNG buffer is     *)
(*   [sigOk, chunks, truncated]: whether the 8 signature bytes match, the  *)
(* chunks in file order, and whether the declared length of the last       *)
(* chunk runs past the end of the buffer.  A chunk is [type, keyword,      *)
(* text]: keyword "" stands for a missing keyword or separator             *)
(* (indexOf(0) <= 0), text is the set of keywords the (non-empty) text     *)
(* contains.  The result is [threw, chunks]: readUInt32BE of the CRC       *)
(* throws a RangeError on the truncated chunk, and nothing in              *)
(* parsePNGChunks catches it.                                              *)
(***************************************************************************)
\* Map.prototype.set on a sequence of [key, content] pairs in insertion order
MapSet(m, k, v) ==
    IF \E i \in 1..Len(m) : m[i].key = k
    THEN [i \in 1..Len(m) |-> IF m[i].key = k THEN [key |-> k, content |-> v] ELSE m[i]]
    ELSE Append(m, [key |-> k, content |-> v])

MapHas(m, k) == \E i \in 1..Len(m) : m[i].key = k

isTextChunk(type) == type \in {"tEXt", "zTXt", "iTXt"}

RECURSIVE PNGWalk(_, _, _, _, _)
\* the while loop of parsePNGChunks: i is the index of the chunk at offset
PNGWalk(png, i, chunks, textContent, n) ==
    IF i > n THEN [threw |-> FALSE, chunks |-> chunks, textContent |-> textContent]
    ELSE IF i = n /\ png.truncated
         THEN [threw |-> TRUE, chunks |-> chunks, textContent |-> textContent]
    ELSE LET c == png.chunks[i]
             stored == c.type = "tEXt" /\ c.keyword # ""
             chunks2 == IF stored THEN MapSet(chunks, c.keyword, c.text) ELSE chunks
             text2 == IF isTextChunk(c.type) /\ c.keyword # ""
                      THEN [present |-> TRUE, str |-> c.text] ELSE textContent
         IN IF c.type = "IEND"
            THEN [threw |-> FALSE, chunks |-> chunks2, textContent |-> text2]
            ELSE PNGWalk(png, i + 1, chunks2, text2, n)

parsePNGChunks(png) ==
    IF ~png.sigOk THEN [threw |-> FALSE, chunks |-> <<>>]
    ELSE LET w == PNGWalk(png, 1, <<>>, Absent, Len(png.chunks))
         IN IF w.threw THEN [threw |-> TRUE, chunks |-> <<>>]
            ELSE [threw |-> FALSE,
                  chunks |-> IF Has(w.textContent)
                             THEN MapSet(w.chunks, "tEXt", w.textContent.str)
                             ELSE w.chunks]

(***************************************************************************)
(* lib/utils parseEXIFDate.  A date string is Absent (undefined or "") or  *)
(* [present, parts]: the pieces split(' ') gives, each the sequence of     *)
(* tokens its split(':') gives.  A token is [kind, value]: "number" (only  *)
(* digits), "prefixed" (digits followed by other characters: parseInt      *)
(* reads the digits) or "text" (parseInt gives NaN).  A Date is its time   *)
(* value in seconds, counted with 12 months of 31 days from 1970 in local  *)
(* time; calendar irregularities are not modelled.                         *)
(***************************************************************************)
NoTime == -1          \* null

InvalidDate == -2     \* a Date whose time value is NaN

parseInt(token) == IF token.kind = "text" THEN InvalidDate ELSE token.value

\* new Date(year, monthIndex, day, hours, minutes, seconds)
newDate(y, mo, d, h, mi, sec) ==
    IF InvalidDate \in {y, mo, d, h, mi, sec} THEN InvalidDate
    ELSE (((((y - 1970) * 12 + mo) * 31 + (d - 1)) * 24 + h) * 60 + mi) * 60 + sec

parseEXIFDate(dateStr) ==
    IF ~Has(dateStr) THEN NoTime
    ELSE IF Len(dateStr.parts) # 2 THEN NoTime
    ELSE LET dateParts == dateStr.parts[1]
             timeParts == dateStr.parts[2]
         IN IF Len(dateParts) # 3 THEN NoTime
            ELSE IF Len(timeParts) # 3 THEN NoTime
            ELSE LET month == parseInt(dateParts[2])
                 IN newDate(parseInt(dateParts[1]),
                            IF month = InvalidDate THEN InvalidDate ELSE month - 1,
                            parseInt(dateParts[3]), parseInt(timeParts[1]),
                            parseInt(timeParts[2]), parseInt(timeParts[3]))

\* lib/utils hasC2PAMetadata: the marker test compares one byte (0..255) with
\* APP13_MARKER = 0xFFED, so no segment is ever entered.
APP13_MARKER == 65517

hasC2PAMetadata(img) ==
    \E b \in img.markerBytes : b = APP13_MARKER /\ img.jumbf

(***************************************************************************)
(* lib/metadata-analyzer                                                   *)
(***************************************************************************)
\* one term of the sum, in millionths of a degree: r.n / r.d * k / j as an integer part and
\* a fraction num / den
microTerm(r, k, j) ==
    [int |-> (r.n * k) \div (r.d * j), num |-> (r.n * k) % (r.d * j), den |-> r.d * j]

\* convertDMSToDecimal: dms is Absent or a sequence of rationals [n, d] (n >= 0, d > 0); the
\* result is Absent (undefined) or the decimal degrees in millionths, [present, micro].
\* degrees + minutes / 60 + seconds / 3600 is taken exactly, the sign applied, and
\* Math.round(x) is floor(x + 1/2).
convertDMSToDecimal(dms, ref) ==
    IF ~Has(dms) \/ Len(dms.list) < 3 THEN Absent
    ELSE LET deg == microTerm(dms.list[1], 1000000, 1)
             min == microTerm(dms.list[2], 50000, 3)
             sec == microTerm(dms.list[3], 2500, 9)
             whole == deg.int + min.int + sec.int
             den == deg.den * min.den * sec.den
             num == deg.num * min.den * sec.den + min.num * deg.den * sec.den
                    + sec.num * deg.den * min.den
         IN [present |-> TRUE,
             micro |-> IF ref = "S" \/ ref = "W"
                       THEN (den - 2 * num) \div (2 * den) - whole
                       ELSE whole + (2 * num + den) \div (2 * den)]

\* `date || undefined` of the TimestampAnalysis literal: a Date object is truthy
timestampField(date) == IF date = NoTime THEN Absent ELSE [present |-> TRUE, date |-> date]

\* times: [orig, digit, gps] in seconds, NoTime when parseEXIFDate / parseGPSTimestamp gave null
IsTime(date) == date # NoTime /\ date # InvalidDate

\* a comparison with the NaN time value of an invalid Date is false
analyzeTimestamps(times, now) ==
    (IF IsTime(times.orig) /\ IsTime(times.digit) /\ Abs(times.orig - times.digit) > 60
     THEN <<Finding("warning", 25, "metadata", "Timestamp inconsistency detected")>> ELSE <<>>)
    \o
    (IF IsTime(times.orig) /\ times.orig > now
     THEN <<Finding("warning", 40, "metadata", "Future timestamp detected")>> ELSE <<>>)
    \o
    (IF IsTime(times.gps) /\ IsTime(times.orig) /\ Abs(times.gps - times.orig) > 30
     THEN <<Finding("warning", 20, "metadata", "GPS timestamp mismatch")>> ELSE <<>>)

AISignature(type, conf) == [toolType |-> type, confidence |-> conf]

\* the body of the inner try of the JPEG path, once piexif.load has returned
metadataJPEG(exif, now) ==
    LET aiDetection == detectAITool(exif.software)
        sw == Has(exif.software)
        inconsistencies == analyzeTimestamps(exif.times, now)
    IN [findings |->
            (IF sw /\ aiDetection.detected
             THEN <<Finding("critical", 100, "ai-signature", "AI generation software detected")>>
             ELSE <<>>)
            \o (IF sw /\ isExportTool(exif.software)
                THEN <<Finding("warning", 50, "metadata", "Export tool detected")>> ELSE <<>>)
            \o (IF ~exif.make
                THEN <<Finding("warning", 40, "metadata", "Missing camera manufacturer information")>>
                ELSE <<>>)
            \o (IF ~exif.gps
                THEN <<Finding("warning", 30, "metadata", "Missing GPS location data")>> ELSE <<>>)
            \o inconsistencies,
        aiSignatures |-> IF sw /\ aiDetection.detected
                         THEN <<AISignature(aiDetection.type, 95)>> ELSE <<>>,
        cameraInfo |-> [present |-> TRUE, make |-> exif.make, model |-> exif.model,
                        software |-> exif.software],
        hasGPS |-> exif.gps,
        timestamps |-> IF inconsistencies # <<>>
                       THEN [present |-> TRUE, inconsistencies |-> inconsistencies]
                       ELSE Absent]

RECURSIVE pngChunkFindings(_, _)
\* the for loop over pngChunks.entries(): one finding for an entry with a keyword hit
pngChunkFindings(chunks, i) ==
    IF i > Len(chunks) THEN <<>>
    ELSE (IF IncludesAny(chunks[i].content, PNG_AI_CHUNK_KEYWORDS)
          THEN <<Finding("critical", 100, "ai-signature",
                         "AI generation parameters detected in PNG chunks")>>
          ELSE <<>>) \o pngChunkFindings(chunks, i + 1)

\* the status with `warning` starting at severity 50
metadataStatus_from50(findings) ==
    IF Some(findings, LAMBDA f : f.type = "critical" /\ f.category = "ai-signature") THEN "failed"
    ELSE IF Some(findings, LAMBDA f : f.severity >= 50) THEN "warning" ELSE "passed"

metadataStatus(findings) ==
    IF Some(findings, LAMBDA f : f.type = "critical" /\ f.category = "ai-signature") THEN "failed"
    ELSE IF Some(findings, LAMBDA f : f.severity >= 40) THEN "warning" ELSE "passed"

metadataFailure ==
    [status |-> "failed",
     findings |-> <<Finding("critical", 100, "metadata", "Metadata analysis failed")>>,
     cameraInfo |-> Absent, gpsInfo |-> Absent, timestamps |-> Absent,
     aiSignatures |-> Absent, hasEXIF |-> FALSE, hasGPS |-> FALSE]

analyzeMetadata(img, now) ==
    IF ~img.dataUrlOk THEN metadataFailure          \* extractBase64 throws
    ELSE IF img.isJPEG THEN
        IF img.exif.parses
        THEN LET j == metadataJPEG(img.exif, now)
             IN [status |-> metadataStatus(j.findings), findings |-> j.findings,
                 cameraInfo |-> j.cameraInfo,
                 gpsInfo |-> IF j.hasGPS THEN [present |-> TRUE] ELSE Absent,
                 timestamps |-> j.timestamps,
                 aiSignatures |-> [present |-> TRUE, list |-> j.aiSignatures],
                 hasEXIF |-> TRUE, hasGPS |-> j.hasGPS]
        ELSE LET f == <<Finding("warning", 35, "metadata", "Unable to parse EXIF metadata")>>
             IN [status |-> metadataStatus(f), findings |-> f,
                 cameraInfo |-> Absent, gpsInfo |-> Absent, timestamps |-> Absent,
                 aiSignatures |-> [present |-> TRUE, list |-> <<>>],
                 hasEXIF |-> FALSE, hasGPS |-> FALSE]
    ELSE LET p == parsePNGChunks(img.png)
         IN IF p.threw THEN metadataFailure
            ELSE LET hits == pngChunkFindings(p.chunks, 1)
                     f == <<Finding("info", 15, "metadata", "PNG format - limited EXIF support")>>
                          \o hits
                          \o (IF hasC2PAMetadata(img)
                              THEN <<Finding("warning", 45, "metadata", "C2PA/JUMBF metadata detected")>>
                              ELSE <<>>)
                          \o <<Finding("warning", 35, "metadata", "No EXIF metadata found")>>
                 IN [status |-> metadataStatus(f), findings |-> f,
                     cameraInfo |-> Absent, gpsInfo |-> Absent, timestamps |-> Absent,
                     aiSignatures |-> [present |-> TRUE,
                                       list |-> [i \in 1..Len(hits) |-> AISignature("diffusion", 90)]],
                     hasEXIF |-> FALSE, hasGPS |-> FALSE]

(***************************************************************************)
(* lib/forensics-analyzer: the sub-analyses, from the statistics each one  *)
(* measures on the raster, and the neutral result of its catch block.      *)
(***************************************************************************)
\* e: [variance10, hotspot10], the ELA variance and hotspot percentage in tenths
analyzeELA(e) ==
    [present |-> TRUE,
     variance10 |-> e.variance10,
     hotspot10 |-> e.hotspot10,
     hasManipulation |-> (e.variance10 > 150 /\ e.hotspot10 > 50)
                         \/ (e.variance10 < 30 /\ e.hotspot10 < 5),
     severity |-> IF e.variance10 > 250 THEN 75
                  ELSE IF e.variance10 > 180 THEN 60
                  ELSE IF e.variance10 > 120 THEN 45
                  ELSE IF e.variance10 < 20 THEN 70 ELSE 0]

neutralELA ==
    [present |-> TRUE, variance10 |-> 0, hotspot10 |-> 0, hasManipulation |-> FALSE, severity |-> 0]

\* f: [grid, balance, reps]: gridArtifactScore and gradientBalance in percent and
\* patternRepetitions; blockScores.length is 31 * 31 = 961
analyzeFrequencyDomain(f) ==
    LET hasAnomalies == f.grid > 40 \/ f.balance > 30
    IN [present |-> TRUE,
        hasAnomalies |-> hasAnomalies,
        anomalyType |-> IF f.grid > 50 THEN "grid_artifacts"
                        ELSE IF f.balance > 35 THEN "gradient_imbalance"
                        ELSE IF 10 * f.reps > 3 * 961 THEN "periodic_patterns"
                        ELSE "none",
        gridArtifacts |-> f.grid > 30,
        periodicPatterns |-> f.reps > 10,
        severity |-> IF hasAnomalies THEN Min(80, Max(f.grid, f.balance + 20)) ELSE 0]

neutralFrequency ==
    [present |-> TRUE, hasAnomalies |-> FALSE, anomalyType |-> "error",
     gridArtifacts |-> FALSE, periodicPatterns |-> FALSE, severity |-> 0]

\* the local binary pattern of a pixel: bit i is set when neighbour i is >= the centre
lbpCode(center, neighbors) ==
    SumSeq([i \in 1..8 |-> IF neighbors[i] >= center THEN 2 ^ (i - 1) ELSE 0])

\* at most two transitions between cyclically adjacent bits
isUniform(code) ==
    LET bit(i) == (code \div (2 ^ i)) % 2
        transitions == SumSeq([i \in 1..8 |-> IF bit(i - 1) # bit(i % 8) THEN 1 ELSE 0])
    IN transitions <= 2

\* the statistics the two scans of analyzeTexturePatterns collect on a 256 x 256 raster whose
\* pixels all have intensity v: every interior pixel has the same code, so one bin holds every
\* sample; every compared window pair is similar (30 rows of 28 pairs, of at most 512)
flatTexture(v) ==
    LET code == lbpCode(v, [i \in 1..8 |-> v])
    IN [bins |-> 1,
        uniformRatio |-> IF isUniform(code) THEN 100 ELSE 0,
        dominance |-> 100,
        repetition |-> (30 * 28 * 100) \div 512]

\* t: [bins, uniformRatio, dominance, repetition]: the non-empty bins (of 256) and three
\* percentages; naturalness is kept exactly, in units of 1/25600
analyzeTexturePatterns(t) ==
    LET naturalness25600 == 3000 * t.bins + 10240 * t.uniformRatio + 7680 * (100 - t.dominance)
        isArtificial == naturalness25600 < 40 * 25600 \/ t.repetition > 30 \/ t.dominance > 15
    IN [present |-> TRUE,
        naturalness25600 |-> naturalness25600,
        repetitionScore |-> t.repetition,
        microPatternScore |-> t.dominance,
        isArtificial |-> isArtificial,
        severity |-> IF ~isArtificial THEN 0
                     ELSE IF t.repetition > 40 THEN 75
                     ELSE IF naturalness25600 < 30 * 25600 THEN 70
                     ELSE IF t.dominance > 20 THEN 60 ELSE 50]

neutralTexture ==
    [present |-> TRUE, naturalness25600 |-> 50 * 25600, repetitionScore |-> 0,
     microPatternScore |-> 0, isArtificial |-> FALSE, severity |-> 0]

neutralCompression ==
    [present |-> TRUE, hasInconsistency |-> FALSE, inconsistencyType |-> "",
     hasStandardQuantization |-> FALSE, hasQuality |-> FALSE, estimatedQuality |-> 0,
     blockArtifacts |-> FALSE, ghostingDetected |-> FALSE, severity |-> 0]

\* q: [soi, dqtCount, tables, firstVal, highFreq, similar]: whether the buffer starts with
\* SOI, the DQT markers met, the tables of length >= 67 collected, the first coefficient of
\* the last table, whether highFreqSum > 3 * lowFreqSum in the first table, and whether
\* the first two tables have more than 50 near-equal coefficients
analyzeJPEGCompression(q) ==
    IF ~q.soi THEN neutralCompression
    ELSE LET estimatedQuality ==
                 IF q.tables = 0 THEN 75
                 ELSE IF q.firstVal <= 2 THEN 95
                 ELSE IF q.firstVal <= 5 THEN 90
                 ELSE IF q.firstVal <= 10 THEN 80
                 ELSE IF q.firstVal <= 20 THEN 70
                 ELSE IF q.firstVal <= 40 THEN 50 ELSE 30
             multiple == q.tables > 2
             blockArtifacts == q.tables > 0 /\ q.highFreq
             ghostingDetected == q.tables >= 2 /\ q.similar
             hasInconsistency == multiple \/ blockArtifacts \/ ghostingDetected
         IN [present |-> TRUE,
             hasInconsistency |-> hasInconsistency,
             inconsistencyType |-> IF multiple THEN "multiple_quantization_tables"
                                   ELSE IF blockArtifacts THEN "block_artifacts"
                                   ELSE IF ghostingDetected THEN "double_compression" ELSE "",
             hasStandardQuantization |-> q.dqtCount >= 2 /\ estimatedQuality >= 70,
             hasQuality |-> TRUE,
             estimatedQuality |-> estimatedQuality,
             blockArtifacts |-> blockArtifacts,
             ghostingDetected |-> ghostingDetected,
             severity |-> IF ~hasInconsistency THEN 0
                          ELSE IF ghostingDetected THEN 55
                          ELSE IF blockArtifacts THEN 45 ELSE 40]

\* a: the set of artifact rules that fired on the raster
detectAIArtifacts(a) ==
    LET ganFingerprint == IF "checkerboard_artifacts" \in a THEN 30 ELSE 0
        diffusionMarkers == (IF "color_banding" \in a THEN 20 ELSE 0)
                            + (IF "blur_inconsistency" \in a THEN 25 ELSE 0)
                            + (IF "unnatural_edges" \in a THEN 20 ELSE 0)
                            + (IF "suspicious_reflections" \in a THEN 15 ELSE 0)
        totalScore == ganFingerprint + diffusionMarkers
    IN [present |-> TRUE,
        hasArtifacts |-> a # {},
        artifactTypes |-> a,
        ganFingerprint |-> ganFingerprint,
        diffusionMarkers |-> diffusionMarkers,
        severity |-> IF a = {} THEN 0
                     ELSE IF totalScore >= 60 THEN 85
                     ELSE IF totalScore >= 40 THEN 70
                     ELSE IF totalScore >= 25 THEN 55 ELSE 40]

neutralArtifacts ==
    [present |-> TRUE, hasArtifacts |-> FALSE, artifactTypes |-> {},
     ganFingerprint |-> 0, diffusionMarkers |-> 0, severity |-> 0]

\* |width/height - n/d| < 0.05 for a ratio n/d of commonScreenshotRatios
nearRatio(width, height, n, d) ==
    height > 0 /\ 20 * Abs(width * d - n * height) < height * d

detectScreenshot(width, height, cameraMake, software) ==
    LET isCommonRatio == nearRatio(width, height, 16, 9) \/ nearRatio(width, height, 16, 10)
                         \/ nearRatio(width, height, 4, 3) \/ nearRatio(width, height, 3, 2)
                         \/ nearRatio(width, height, 25, 16)
        probability ==
            (IF isCommonRatio THEN 15 ELSE 0)
            + (IF width \in {1920, 2560, 3840, 1366, 1440, 1536, 2880, 5120} THEN 25 ELSE 0)
            + (IF height \in {1080, 1440, 2160, 768, 900, 864, 1200, 1800, 2880} THEN 25 ELSE 0)
            + (IF ~cameraMake THEN 15 ELSE 0)
            + (IF Has(software) /\ Includes(software.str, "screenshot") THEN 35 ELSE 0)
    IN [isScreenshot |-> probability >= 55, probability |-> Min(100, probability)]

RECURSIVE pngSpecificFindings(_, _)
pngSpecificFindings(chunks, i) ==
    IF i > Len(chunks) THEN <<>>
    ELSE (IF IncludesAny(chunks[i].content, aiKeywords)
          THEN <<Finding("critical", 90, "forensics", "AI generation signature in PNG metadata")>>
          ELSE <<>>) \o pngSpecificFindings(chunks, i + 1)

\* [threw, findings]: parsePNGChunks' RangeError is not caught here either
analyzePNGSpecific(png) ==
    LET p == parsePNGChunks(png)
    IN IF p.threw THEN [threw |-> TRUE, findings |-> <<>>]
       ELSE [threw |-> FALSE,
             findings |-> pngSpecificFindings(p.chunks, 1)
                          \o (IF ~MapHas(p.chunks, "IHDR")
                              THEN <<Finding("warning", 50, "forensics", "PNG missing IHDR chunk")>>
                              ELSE <<>>)]

(***************************************************************************)
(* lib/utils calculateConfidence and lib/scoring-engine.  Scores are in    *)
(* hundredths until Math.round.                                            *)
(***************************************************************************)
\* Math.round of a non-negative number given in hundredths
Round100(x100) == (x100 + 50) \div 100

\* Math.round of the non-negative rational num/den
RoundRat(num, den) == (2 * num + den) \div (2 * den)

Clamp100(x100) == Max(0, Min(10000, x100))

\* baseScore in hundredths, the factors in units
\* calculateConfidence without its final Math.max / Math.min
calculateConfidence_unclamped(baseScore100, positiveFactors, negativeFactors) ==
    baseScore100 + 100 * SumSeq(positiveFactors) - 100 * SumSeq(negativeFactors)

calculateConfidence(baseScore100, positiveFactors, negativeFactors) ==
    Clamp100(baseScore100 + 100 * SumSeq(positiveFactors) - 100 * SumSeq(negativeFactors))

hasSignatures(metadata) ==
    Has(metadata.aiSignatures) /\ Len(metadata.aiSignatures.list) > 0

\* the metadata loop with its `critical ai-signature` branch removed
RECURSIVE metadataFindingScore_warningsOnly(_)
metadataFindingScore_warningsOnly(findings) ==
    IF findings = <<>> THEN 0
    ELSE (IF Head(findings).type = "warning" THEN Head(findings).severity * 40 ELSE 0)
         + metadataFindingScore_warningsOnly(Tail(findings))

RECURSIVE metadataFindingScore(_)
metadataFindingScore(findings) ==
    IF findings = <<>> THEN 0
    ELSE LET f == Head(findings)
         IN (IF f.type = "critical" /\ f.category = "ai-signature" THEN f.severity * 95
             ELSE IF f.type = "warning" THEN f.severity * 40 ELSE 0)
            + metadataFindingScore(Tail(findings))

\* the forensics loop with its `critical` branch removed
RECURSIVE forensicsFindingScore_warningsOnly(_)
forensicsFindingScore_warningsOnly(findings) ==
    IF findings = <<>> THEN 0
    ELSE (IF Head(findings).type = "warning" THEN Head(findings).severity * 50 ELSE 0)
         + forensicsFindingScore_warningsOnly(Tail(findings))

RECURSIVE forensicsFindingScore(_)
forensicsFindingScore(findings) ==
    IF findings = <<>> THEN 0
    ELSE LET f == Head(findings)
         IN (IF f.type = "critical" THEN f.severity * 100
             ELSE IF f.type = "warning" THEN f.severity * 50 ELSE 0)
            + forensicsFindingScore(Tail(findings))

\* the unclamped sum, in hundredths
riskSum(metadata, forensics) ==
    LET ela == forensics.elaAnalysis
        freq == forensics.frequencyAnalysis
        tex == forensics.textureAnalysis
        comp == forensics.compressionAnalysis
        art == forensics.aiArtifactAnalysis
        sum == forensics.forensics
        cam == metadata.cameraInfo
    IN (IF Has(ela) /\ ela.hasManipulation THEN ela.severity * 100 ELSE 0)
       + (IF Has(freq) /\ freq.hasAnomalies THEN freq.severity * 100 ELSE 0)
       + (IF Has(tex) /\ tex.isArtificial THEN tex.severity * 100 ELSE 0)
       + (IF Has(comp) /\ comp.hasInconsistency THEN comp.severity * 80 ELSE 0)
       + (IF Has(art) /\ art.hasArtifacts THEN art.severity * 130 ELSE 0)
       + (IF hasSignatures(metadata) THEN 85 * 95 ELSE 0)
       + metadataFindingScore(metadata.findings)
       + forensicsFindingScore(forensics.findings)
       + (IF Has(sum) /\ sum.isScreenshot THEN 4000 ELSE 0)
       + (IF Has(sum) /\ sum.exportToolDetected THEN 3500 ELSE 0)
       - (IF metadata.hasEXIF THEN 1500 ELSE 0)
       - (IF metadata.hasGPS THEN 1500 ELSE 0)
       - (IF Has(cam) /\ cam.make /\ cam.model THEN 2000 ELSE 0)
       - (IF Has(tex) /\ tex.naturalness25600 > 70 * 25600 THEN 1500 ELSE 0)
       - (IF Has(ela) /\ ~ela.hasManipulation /\ ela.variance10 < 100 THEN 1000 ELSE 0)

calculateRiskScore(metadata, forensics) == Clamp100(riskSum(metadata, forensics))

\* the accumulation of detectAIGeneration: totalScore in tenths, methodCount, and the lists
aiSignals(metadata, forensics) ==
    LET ela == forensics.elaAnalysis
        freq == forensics.frequencyAnalysis
        tex == forensics.textureAnalysis
        comp == forensics.compressionAnalysis
        art == forensics.aiArtifactAnalysis
        sigs == IF hasSignatures(metadata) THEN metadata.aiSignatures.list ELSE <<>>
        m1 == sigs # <<>>
        m2 == Has(ela) /\ ela.hasManipulation /\ ela.severity >= 50
        m3 == Has(freq) /\ freq.hasAnomalies
        m4 == Has(tex) /\ tex.isArtificial
        m5 == Has(art) /\ art.hasArtifacts
        m6 == Has(comp) /\ comp.hasInconsistency
    IN [totalScore10 |-> 10 * SumSeq([i \in 1..Len(sigs) |-> sigs[i].confidence])
                         + (IF m2 THEN 10 * ela.severity ELSE 0)
                         + (IF m3 THEN 10 * freq.severity ELSE 0)
                         + (IF m4 THEN 10 * tex.severity ELSE 0)
                         + (IF m5 THEN 12 * art.severity ELSE 0)
                         + (IF m6 THEN 10 * comp.severity ELSE 0),
        methodCount |-> Len(sigs) + (IF m2 THEN 1 ELSE 0) + (IF m3 THEN 1 ELSE 0)
                        + (IF m4 THEN 1 ELSE 0) + (IF m5 THEN 1 ELSE 0) + (IF m6 THEN 1 ELSE 0),
        detectionMethods |-> (IF m1 THEN <<"metadata_signatures">> ELSE <<>>)
                             \o (IF m2 THEN <<"error_level_analysis">> ELSE <<>>)
                             \o (IF m3 THEN <<"frequency_analysis">> ELSE <<>>)
                             \o (IF m4 THEN <<"texture_analysis">> ELSE <<>>)
                             \o (IF m5 THEN <<"artifact_detection">> ELSE <<>>)
                             \o (IF m6 THEN <<"compression_analysis">> ELSE <<>>),
        primaryIndicators |-> [i \in 1..Len(sigs) |-> "AI tool"]
                              \o (IF m2 THEN <<"ELA variance">> ELSE <<>>)
                              \o (IF m3 THEN <<"Spectral anomaly">> ELSE <<>>)
                              \o (IF m4 THEN <<"Texture naturalness">> ELSE <<>>)
                              \o (IF m5 THEN [i \in 1..Min(3, Cardinality(art.artifactTypes)) |-> "Artifact"]
                                  ELSE <<>>)
                              \o (IF m6 THEN <<"Compression issue">> ELSE <<>>)]

\* adjustedConfidence as the rational num/den: confidence * multiplier, capped at 100
adjustedConfidence(totalScore10, methodCount) ==
    IF methodCount = 0 THEN [num |-> 0, den |-> 1]
    ELSE LET num == totalScore10 * (100 + 8 * Min(methodCount, 5))
             den == 1000 * methodCount
         IN IF num >= 100 * den THEN [num |-> 100, den |-> 1] ELSE [num |-> num, den |-> den]

AtLeast(r, n) == r.num >= n * r.den

\* the rule reduced to its first disjunct
isLikelyAIRule_twoMethodsOnly(methodCount, adj, signatures) ==
    methodCount >= 2 /\ AtLeast(adj, 55)

\* the rule satisfied by any single detection method
isLikelyAIRule_anyMethod(methodCount, adj, signatures) ==
    methodCount >= 1

isLikelyAIRule(methodCount, adj, signatures) ==
    (methodCount >= 2 /\ AtLeast(adj, 55))
    \/ (methodCount >= 3 /\ AtLeast(adj, 45))
    \/ (signatures /\ AtLeast(adj, 70))

detectAIGeneration(metadata, forensics) ==
    LET s == aiSignals(metadata, forensics)
        adj == adjustedConfidence(s.totalScore10, s.methodCount)
    IN [isLikelyAI |-> isLikelyAIRule(s.methodCount, adj, hasSignatures(metadata)),
        confidence |-> RoundRat(adj.num, adj.den),
        detectionMethods |-> s.detectionMethods,
        primaryIndicators |-> SubSeq(s.primaryIndicators, 1, Min(5, Len(s.primaryIndicators)))]

Take(s, n) == SubSeq(s, 1, Min(n, Len(s)))

generateRecommendation(status, metadata, forensics, aiDetection) ==
    LET ela == forensics.elaAnalysis
        freq == forensics.frequencyAnalysis
        tex == forensics.textureAnalysis
        art == forensics.aiArtifactAnalysis
        sum == forensics.forensics
        cam == metadata.cameraInfo
    IN IF status = "REJECTED" THEN
           [verdict |-> "REJECTED",
            items |-> Take((IF aiDetection.isLikelyAI
                            THEN <<"AI generation detected">>
                                 \o Take(aiDetection.primaryIndicators, 1) ELSE <<>>)
                           \o (IF hasSignatures(metadata) THEN <<"AI tool signatures">> ELSE <<>>)
                           \o (IF Has(art) /\ art.hasArtifacts THEN <<"artifact description">> ELSE <<>>)
                           \o (IF Has(ela) /\ ela.hasManipulation
                               THEN <<"Image manipulation detected via ELA">> ELSE <<>>), 2)]
       ELSE IF status = "RISKY" THEN
           LET concerns ==
                   (IF aiDetection.isLikelyAI THEN <<"potential AI generation">> ELSE <<>>)
                   \o (IF ~metadata.hasEXIF THEN <<"missing camera metadata">> ELSE <<>>)
                   \o (IF ~metadata.hasGPS THEN <<"no location data">> ELSE <<>>)
                   \o (IF Has(ela) /\ ela.hasManipulation THEN <<"editing detected">> ELSE <<>>)
                   \o (IF Has(tex) /\ tex.isArtificial THEN <<"synthetic textures">> ELSE <<>>)
                   \o (IF Has(art) /\ art.hasArtifacts THEN <<"AI artifacts">> ELSE <<>>)
                   \o (IF Has(freq) /\ freq.hasAnomalies THEN <<"frequency anomalies">> ELSE <<>>)
                   \o (IF Has(sum) /\ sum.isScreenshot THEN <<"screenshot detected">> ELSE <<>>)
           IN [verdict |-> "RISKY",
               items |-> IF concerns = <<>> THEN <<"authenticity concerns">> ELSE Take(concerns, 4)]
       ELSE
           [verdict |-> "VERIFIED",
            items |-> Take((IF metadata.hasEXIF THEN <<"valid camera metadata">> ELSE <<>>)
                           \o (IF metadata.hasGPS THEN <<"GPS location verified">> ELSE <<>>)
                           \o (IF Has(cam) /\ cam.make /\ cam.model
                               THEN <<"camera signature">> ELSE <<>>)
                           \o (IF Has(tex) /\ tex.naturalness25600 > 70 * 25600
                               THEN <<"natural texture patterns">> ELSE <<>>)
                           \o (IF Has(ela) /\ ~ela.hasManipulation
                               THEN <<"consistent compression">> ELSE <<>>), 3)]

\* the chain with the risk-score branches tried before the AI-detection branch
verdict_riskFirst(metadata, criticalFindings, riskScore100, aiDetection) ==
    IF riskScore100 >= 7000
    THEN [status |-> "RISKY", confidence100 |-> calculateConfidence(riskScore100, <<15>>, <<-10>>)]
    ELSE IF aiDetection.isLikelyAI /\ aiDetection.confidence >= 75
    THEN [status |-> "REJECTED", confidence100 |-> 100 * aiDetection.confidence]
    ELSE IF Len(criticalFindings) > 0
            /\ Some(criticalFindings, LAMBDA f : f.category = "ai-signature")
    THEN [status |-> "REJECTED", confidence100 |-> calculateConfidence(9000, <<10>>, <<>>)]
    ELSE IF riskScore100 >= 4500 \/ (aiDetection.isLikelyAI /\ aiDetection.confidence >= 50)
    THEN [status |-> "RISKY", confidence100 |-> calculateConfidence(riskScore100, <<10>>, <<-5>>)]
    ELSE [status |-> "VERIFIED", confidence100 |-> calculateConfidence(3000, <<>>, <<>>)]

\* the chain without its second branch
verdict_noSignatureRule(metadata, criticalFindings, riskScore100, aiDetection) ==
    IF aiDetection.isLikelyAI /\ aiDetection.confidence >= 75
    THEN [status |-> "REJECTED", confidence100 |-> 100 * aiDetection.confidence]
    ELSE IF riskScore100 >= 4500 \/ (aiDetection.isLikelyAI /\ aiDetection.confidence >= 50)
    THEN [status |-> "RISKY", confidence100 |-> calculateConfidence(riskScore100, <<10>>, <<-5>>)]
    ELSE [status |-> "VERIFIED", confidence100 |-> calculateConfidence(3000, <<>>, <<>>)]

\* the chain with its moderate-risk branch taken from 55 instead of 45
verdict_moderateFrom55(metadata, criticalFindings, riskScore100, aiDetection) ==
    IF aiDetection.isLikelyAI /\ aiDetection.confidence >= 75
    THEN [status |-> "REJECTED", confidence100 |-> 100 * aiDetection.confidence]
    ELSE IF Len(criticalFindings) > 0
            /\ Some(criticalFindings, LAMBDA f : f.category = "ai-signature")
    THEN [status |-> "REJECTED", confidence100 |-> calculateConfidence(9000, <<10>>, <<>>)]
    ELSE IF riskScore100 >= 7000
    THEN [status |-> "RISKY", confidence100 |-> calculateConfidence(riskScore100, <<15>>, <<-10>>)]
    ELSE IF riskScore100 >= 5500 \/ (aiDetection.isLikelyAI /\ aiDetection.confidence >= 50)
    THEN [status |-> "RISKY", confidence100 |-> calculateConfidence(riskScore100, <<10>>, <<-5>>)]
    ELSE [status |-> "VERIFIED", confidence100 |-> calculateConfidence(3000, <<>>, <<>>)]

\* the if / else-if chain of scoreResults: [status, confidence100]
verdict(metadata, criticalFindings, riskScore100, aiDetection) ==
    IF aiDetection.isLikelyAI /\ aiDetection.confidence >= 75
    THEN [status |-> "REJECTED", confidence100 |-> 100 * aiDetection.confidence]
    ELSE IF Len(criticalFindings) > 0
            /\ Some(criticalFindings, LAMBDA f : f.category = "ai-signature")
    THEN [status |-> "REJECTED", confidence100 |-> calculateConfidence(9000, <<10>>, <<>>)]
    ELSE IF riskScore100 >= 7000
    THEN [status |-> "RISKY", confidence100 |-> calculateConfidence(riskScore100, <<15>>, <<-10>>)]
    ELSE IF riskScore100 >= 4500 \/ (aiDetection.isLikelyAI /\ aiDetection.confidence >= 50)
    THEN [status |-> "RISKY", confidence100 |-> calculateConfidence(riskScore100, <<10>>, <<-5>>)]
    ELSE [status |-> "VERIFIED",
          confidence100 |->
              calculateConfidence(3000,
                  (IF metadata.hasGPS THEN <<15>> ELSE <<>>)
                  \o (IF metadata.hasEXIF THEN <<10>> ELSE <<>>)
                  \o (IF Has(metadata.cameraInfo) /\ metadata.cameraInfo.make THEN <<10>> ELSE <<>>),
                  <<>>)]

scoreResults(metadata, forensics) ==
    LET allFindings == metadata.findings \o forensics.findings
        criticalFindings == SelectSeq(allFindings, LAMBDA f : f.type = "critical")
        riskScore100 == calculateRiskScore(metadata, forensics)
        aiDetection == detectAIGeneration(metadata, forensics)
        v == verdict(metadata, criticalFindings, riskScore100, aiDetection)
    IN [present |-> TRUE,
        status |-> v.status,
        confidence |-> Round100(v.confidence100),
        riskScore |-> Round100(riskScore100),
        processingTime |-> 0,
        analysis |-> [metadata |-> metadata,
                      statistics |-> [status |-> "passed", findings |-> <<>>],
                      forensics |-> forensics],
        summary |-> [totalFindings |-> Len(allFindings),
                     criticalCount |-> Len(criticalFindings),
                     warningCount |-> Count(allFindings, LAMBDA f : f.type = "warning"),
                     infoCount |-> Count(allFindings, LAMBDA f : f.type = "info"),
                     recommendation |-> generateRecommendation(v.status, metadata, forensics,
                                                               aiDetection)],
        aiDetection |-> aiDetection]

(***************************************************************************)
(* analyzeForensics: what follows `await Promise.all`, and the catch.      *)
(***************************************************************************)
forensicsFailure ==
    [status |-> "failed",
     findings |-> <<Finding("critical", 100, "forensics", "Forensic analysis failed")>>,
     forensics |-> Absent, elaAnalysis |-> Absent, frequencyAnalysis |-> Absent,
     textureAnalysis |-> Absent, compressionAnalysis |-> Absent, aiArtifactAnalysis |-> Absent]

forensicsStatus(findings) ==
    IF Some(findings, LAMBDA f : f.type = "critical") THEN "failed"
    ELSE IF Some(findings, LAMBDA f : f.severity >= 50) THEN "warning" ELSE "passed"

\* r: the values Promise.all resolved to ([ela, frequency, texture, compression, artifacts,
\* screenshot, png]; compression is Absent for `null`)
assembleForensics(r, software) ==
    LET export == Has(software) /\ isExportTool(software)
        findings ==
            (IF r.ela.hasManipulation
             THEN <<Finding(IF r.ela.severity > 70 THEN "critical" ELSE "warning", r.ela.severity,
                            "forensics", "Error Level Analysis detected manipulation")>>
             ELSE <<>>)
            \o (IF r.frequency.hasAnomalies
                THEN <<Finding(IF r.frequency.severity > 70 THEN "critical" ELSE "warning",
                               r.frequency.severity, "forensics",
                               "Frequency analysis detected AI generation patterns")>>
                ELSE <<>>)
            \o (IF r.texture.isArtificial
                THEN <<Finding(IF r.texture.severity > 70 THEN "critical" ELSE "warning",
                               r.texture.severity, "forensics",
                               "Texture analysis detected synthetic patterns")>>
                ELSE <<>>)
            \o (IF Has(r.compression) /\ r.compression.hasInconsistency
                THEN <<Finding("warning", r.compression.severity, "forensics",
                               "JPEG compression inconsistencies detected")>>
                ELSE <<>>)
            \o (IF r.artifacts.hasArtifacts
                THEN <<Finding(IF r.artifacts.severity > 75 THEN "critical" ELSE "warning",
                               r.artifacts.severity, "forensics",
                               "AI generation artifacts detected")>>
                ELSE <<>>)
            \o (IF r.screenshot.isScreenshot
                THEN <<Finding("warning", 45, "forensics", "Screenshot detected")>> ELSE <<>>)
            \o (IF export
                THEN <<Finding("warning", 40, "forensics", "Export tool signature detected")>>
                ELSE <<>>)
            \o r.png
    IN [status |-> forensicsStatus(findings),
        findings |-> findings,
        forensics |-> [present |-> TRUE,
                       isScreenshot |-> r.screenshot.isScreenshot,
                       screenshotProbability |-> r.screenshot.probability,
                       exportToolDetected |-> export,
                       hasStandardQuantization |->
                           Has(r.compression) /\ r.compression.hasStandardQuantization,
                       thumbnailConsistent |-> TRUE,
                       fileFormatValid |-> TRUE],
        elaAnalysis |-> r.ela,
        frequencyAnalysis |-> r.frequency,
        textureAnalysis |-> r.texture,
        compressionAnalysis |-> r.compression,
        aiArtifactAnalysis |-> r.artifacts]

(***************************************************************************)
(* The promises of analyzeForensics.  The five async sub-analyses run      *)
(* until their first await when called and settle later, in any order;     *)
(* detectScreenshot and analyzePNGSpecific are plain calls evaluated       *)
(* while the array literal handed to Promise.all is built.                 *)
(***************************************************************************)
AsyncTasks == {"ela", "frequency", "texture", "compression", "artifacts"}
Tasks == AsyncTasks \cup {"screenshot", "png"}

idleTask == [state |-> "idle", failed |-> FALSE, value |-> Absent]
runningTask == [state |-> "running", failed |-> FALSE, value |-> Absent]
doneTask(v) == [state |-> "done", failed |-> FALSE, value |-> v]
failedTask(v) == [state |-> "done", failed |-> TRUE, value |-> v]

\* sharp's metadata.format
format(img) == IF img.isJPEG THEN "jpeg" ELSE "png"

\* what the try block of a sub-analysis returns
\* the sub-analyses returning their zero-signal result whatever the raster holds
taskResult_ignoresRaster(t, img) ==
    CASE t = "ela" -> neutralELA
      [] t = "frequency" -> neutralFrequency
      [] t = "texture" -> neutralTexture
      [] t = "compression" -> analyzeJPEGCompression(img.quant)
      [] t = "artifacts" -> neutralArtifacts

taskResult(t, img) ==
    CASE t = "ela" -> analyzeELA(img.px.ela)
      [] t = "frequency" -> analyzeFrequencyDomain(img.px.frequency)
      [] t = "texture" -> analyzeTexturePatterns(img.px.texture)
      [] t = "compression" -> analyzeJPEGCompression(img.quant)
      [] t = "artifacts" -> detectAIArtifacts(img.px.artifacts)

\* what its catch block returns
taskNeutral(t) ==
    CASE t = "ela" -> neutralELA
      [] t = "frequency" -> neutralFrequency
      [] t = "texture" -> neutralTexture
      [] t = "compression" -> neutralCompression
      [] t = "artifacts" -> neutralArtifacts

cameraMakeOf(metadata) == Has(metadata.cameraInfo) /\ metadata.cameraInfo.make
softwareOf(metadata) == IF Has(metadata.cameraInfo) THEN metadata.cameraInfo.software ELSE Absent

\* analyzeForensics as a function of the image and of the set of async sub-analyses whose
\* try block throws
analyzeForensicsOf(img, metadata, fails) ==
    IF ~img.dataUrlOk \/ ~img.decodable THEN forensicsFailure
    ELSE LET png == IF format(img) = "png" THEN analyzePNGSpecific(img.png)
                    ELSE [threw |-> FALSE, findings |-> <<>>]
             val(t) == IF t \in fails THEN taskNeutral(t) ELSE taskResult(t, img)
         IN IF png.threw THEN forensicsFailure
            ELSE assembleForensics(
                     [ela |-> val("ela"), frequency |-> val("frequency"),
                      texture |-> val("texture"),
                      compression |-> IF format(img) = "jpeg" THEN val("compression") ELSE Absent,
                      artifacts |-> val("artifacts"),
                      screenshot |-> detectScreenshot(img.width, img.height,
                                                      cameraMakeOf(metadata), softwareOf(metadata)),
                      png |-> png.findings],
                     softwareOf(metadata))

(***************************************************************************)
(* The submitted images.                                                   *)
(***************************************************************************)
MaxChunks == 2

ELACases ==
    { [variance10 |-> 10, hotspot10 |-> 0],      \* uniform: flagged, severity 70
      [variance10 |-> 50, hotspot10 |-> 20],     \* clean
      [variance10 |-> 110, hotspot10 |-> 20],    \* unflagged, variance >= 10
      [variance10 |-> 160, hotspot10 |-> 100],   \* flagged, severity 45
      [variance10 |-> 300, hotspot10 |-> 100] }  \* flagged, severity 75

FrequencyCases ==
    { [grid |-> 10, balance |-> 5, reps |-> 24],
      [grid |-> 45, balance |-> 10, reps |-> 108],
      [grid |-> 90, balance |-> 50, reps |-> 216] }

TextureCases ==
    { [bins |-> 205, uniformRatio |-> 85, dominance |-> 10, repetition |-> 5],
      [bins |-> 128, uniformRatio |-> 60, dominance |-> 18, repetition |-> 10],
      flatTexture(0), flatTexture(255) }

ArtifactCases ==
    { {}, {"suspicious_reflections"}, {"blur_inconsistency"},
      {"checkerboard_artifacts", "color_banding", "blur_inconsistency"} }

PixelCases ==
    [ela : ELACases, frequency : FrequencyCases, texture : TextureCases, artifacts : ArtifactCases]

cameraPixels ==
    [ela |-> [variance10 |-> 50, hotspot10 |-> 20],
     frequency |-> [grid |-> 10, balance |-> 5, reps |-> 24],
     texture |-> [bins |-> 205, uniformRatio |-> 85, dominance |-> 10, repetition |-> 5],
     artifacts |-> {}]

syntheticPixels ==
    [ela |-> [variance10 |-> 10, hotspot10 |-> 0],
     frequency |-> [grid |-> 45, balance |-> 10, reps |-> 108],
     texture |-> flatTexture(128),
     artifacts |-> {"blur_inconsistency"}]

QuantCases ==
    { [soi |-> TRUE, dqtCount |-> 2, tables |-> 2, firstVal |-> 3, highFreq |-> FALSE, similar |-> FALSE],
      [soi |-> TRUE, dqtCount |-> 3, tables |-> 3, firstVal |-> 8, highFreq |-> FALSE, similar |-> FALSE],
      [soi |-> TRUE, dqtCount |-> 2, tables |-> 2, firstVal |-> 30, highFreq |-> FALSE, similar |-> TRUE] }

noQuant ==
    [soi |-> FALSE, dqtCount |-> 0, tables |-> 0, firstVal |-> 0, highFreq |-> FALSE, similar |-> FALSE]

Sizes == { [width |-> 4032, height |-> 3024], [width |-> 1920, height |-> 1080] }

Str(s) == [present |-> TRUE, str |-> s]

SoftwareCases ==
    { Absent, Str({}), Str({"stable diffusion"}), Str({"screenshot"}),
      Str({"photoshop", "screenshot"}) }

TimesCases ==
    { [orig |-> NoTime, digit |-> NoTime, gps |-> NoTime],
      [orig |-> 100, digit |-> 100, gps |-> 110],
      [orig |-> 2000, digit |-> 100, gps |-> 100] }

noExif ==
    [parses |-> FALSE, make |-> FALSE, model |-> FALSE, software |-> Absent, gps |-> FALSE,
     times |-> [orig |-> NoTime, digit |-> NoTime, gps |-> NoTime]]

ExifCases ==
    {noExif} \cup
    { [parses |-> TRUE, make |-> mm[1], model |-> mm[2], software |-> sw, gps |-> g, times |-> t] :
        mm \in {<<TRUE, TRUE>>, <<TRUE, FALSE>>, <<FALSE, FALSE>>},
        sw \in SoftwareCases, g \in BOOLEAN, t \in TimesCases }

Chunk(type, keyword, text) == [type |-> type, keyword |-> keyword, text |-> text]

ChunkCases ==
    { Chunk("IHDR", "", {}),
      Chunk("tEXt", "parameters", {"steps:", "sampler:"}),
      Chunk("tEXt", "comment", {"steps:"}),
      Chunk("iTXt", "xmp", {"firefly"}),
      Chunk("IEND", "", {}) }

RECURSIVE SeqsUpTo(_, _)
SeqsUpTo(S, n) ==
    IF n = 0 THEN {<<>>}
    ELSE LET shorter == SeqsUpTo(S, n - 1)
         IN shorter \cup {Append(q, x) : q \in {r \in shorter : Len(r) = n - 1}, x \in S}

noPNG == [sigOk |-> FALSE, chunks |-> <<>>, truncated |-> FALSE]

PNGCases ==
    {noPNG} \cup
    { p \in { [sigOk |-> TRUE, chunks |-> cs, truncated |-> tr] :
                 cs \in SeqsUpTo(ChunkCases, MaxChunks), tr \in BOOLEAN } :
        p.truncated => p.chunks # <<>> }

Image(ok, jpeg, dec, size, exif, png, px, quant) ==
    [present |-> TRUE, dataUrlOk |-> ok, isJPEG |-> jpeg, decodable |-> dec,
     width |-> size.width, height |-> size.height, exif |-> exif, png |-> png,
     markerBytes |-> IF jpeg THEN {216, 225} ELSE {80, 78}, jumbf |-> FALSE,
     px |-> px, quant |-> quant]

defaultSize == [width |-> 4032, height |-> 3024]

noImage ==
    [present |-> FALSE, dataUrlOk |-> FALSE, isJPEG |-> FALSE, decodable |-> FALSE,
     width |-> 0, height |-> 0, exif |-> noExif, png |-> noPNG,
     markerBytes |-> {}, jumbf |-> FALSE, px |-> cameraPixels, quant |-> noQuant]

\* images that cannot be decoded: a data URL extractBase64 rejects, and bytes sharp rejects
BrokenImages ==
    { Image(FALSE, jp, FALSE, defaultSize, noExif, noPNG, cameraPixels, noQuant) : jp \in BOOLEAN }
    \cup { Image(TRUE, TRUE, FALSE, defaultSize, e, noPNG, cameraPixels, noQuant) :
             e \in ExifCases }
    \cup { Image(TRUE, FALSE, FALSE, defaultSize, noExif, noPNG, cameraPixels, noQuant) }

JPEGImage(size, exif, px, quant) == Image(TRUE, TRUE, TRUE, size, exif, noPNG, px, quant)

PNGImage(size, png, px) == Image(TRUE, FALSE, TRUE, size, noExif, png, px, noQuant)

\* a PNG holding a segment FF ED whose data contains the box type 'jumb'
C2PAImage(png, px) ==
    [PNGImage(defaultSize, png, px) EXCEPT !.markerBytes = @ \cup {237}, !.jumbf = TRUE]

\* the inputs of the scoring claims: every combination of the measured statistics
IsScoreImage(img) ==
    \/ \E sz \in Sizes, e \in ExifCases, px \in PixelCases, q \in QuantCases :
           img = JPEGImage(sz, e, px, q)
    \/ \E sz \in Sizes, png \in PNGCases, px \in PixelCases :
           img = PNGImage(sz, png, px)
    \/ \E png \in PNGCases : img = C2PAImage(png, cameraPixels)
    \/ img \in BrokenImages

\* the inputs of the pipeline: two rasters, every container
IsPipelineImage(img) ==
    \/ \E e \in ExifCases, px \in {cameraPixels, syntheticPixels}, q \in QuantCases :
           /\ e.times.orig # 100 /\ (e.make => e.model)
           /\ img = JPEGImage(defaultSize, e, px, q)
    \/ \E sz \in Sizes, png \in PNGCases, px \in {cameraPixels, syntheticPixels} :
           img = PNGImage(sz, png, px)
    \/ \E png \in PNGCases : img = C2PAImage(png, cameraPixels)
    \/ img \in BrokenImages
    \/ img = noImage

(***************************************************************************)
(* The request handler POST and the steps of analyzeForensics.             *)
(***************************************************************************)
Init ==
    /\ pc = "start"
    /\ IsPipelineImage(image)
    /\ clock \in {50, 1000}
    /\ metadataAnalysis = Absent
    /\ fpc = "idle"
    /\ task = [t \in Tasks |-> idleTask]
    /\ forensicsAnalysis = Absent
    /\ result = Absent
    /\ response = Absent
    /\ call = Absent
    /\ ret = Absent

\* const { image } = await req.json(); if (!image) return 400
Receive ==
    /\ pc = "start"
    /\ IF image.present
       THEN pc' = "metadata" /\ UNCHANGED response
       ELSE pc' = "done" /\ response' = [present |-> TRUE, code |-> 400]
    /\ UNCHANGED <<image, clock, metadataAnalysis, fpc, task, forensicsAnalysis, result, call, ret>>

\* const metadataAnalysis = await analyzeMetadata(image)
AnalyzeMetadata ==
    /\ pc = "metadata"
    /\ metadataAnalysis' = analyzeMetadata(image, clock) @@ [present |-> TRUE]
    /\ pc' = "forensics"
    /\ UNCHANGED <<image, clock, fpc, task, forensicsAnalysis, result, response, call, ret>>

\* analyzeForensics up to `await image.metadata()`
ForensicsBegin ==
    /\ pc = "forensics" /\ fpc = "idle"
    /\ IF ~image.dataUrlOk \/ ~image.decodable
       THEN /\ forensicsAnalysis' = forensicsFailure @@ [present |-> TRUE]
            /\ fpc' = "returned"
       ELSE /\ fpc' = "fanout"
            /\ UNCHANGED forensicsAnalysis
    /\ UNCHANGED <<pc, image, clock, metadataAnalysis, task, result, response, call, ret>>

\* the array literal of Promise.all: the calls are made left to right; a throw of
\* analyzePNGSpecific leaves the try block with the async sub-analyses started
FanOut ==
    /\ fpc = "fanout"
    /\ LET png == IF format(image) = "png" THEN analyzePNGSpecific(image.png)
                  ELSE [threw |-> FALSE, findings |-> <<>>]
           shot == detectScreenshot(image.width, image.height,
                                    cameraMakeOf(metadataAnalysis), softwareOf(metadataAnalysis))
       IN /\ task' = [t \in Tasks |->
                        CASE t = "screenshot" -> doneTask(shot)
                          [] t = "png" -> IF png.threw THEN failedTask(Absent)
                                          ELSE doneTask([findings |-> png.findings])
                          [] t = "compression" /\ format(image) # "jpeg" -> doneTask(Absent)
                          [] OTHER -> runningTask]
          /\ IF png.threw
             THEN /\ forensicsAnalysis' = forensicsFailure @@ [present |-> TRUE]
                  /\ fpc' = "returned"
             ELSE /\ fpc' = "awaiting"
                  /\ UNCHANGED forensicsAnalysis
    /\ UNCHANGED <<pc, image, clock, metadataAnalysis, result, response, call, ret>>

\* a started sub-analysis settles: with its result, or through its catch block
TaskFinish(t) ==
    /\ task[t].state = "running"
    /\ \E threw \in BOOLEAN :
           task' = [task EXCEPT ![t] = IF threw THEN failedTask(taskNeutral(t))
                                       ELSE doneTask(taskResult(t, image))]
    /\ UNCHANGED <<pc, image, clock, metadataAnalysis, fpc, forensicsAnalysis, result, response, call, ret>>

\* Promise.all resolved: the findings are collected and the result returned
Join ==
    /\ fpc = "awaiting"
    /\ \A t \in Tasks : task[t].state = "done"
    /\ forensicsAnalysis' =
           assembleForensics([ela |-> task["ela"].value, frequency |-> task["frequency"].value,
                              texture |-> task["texture"].value,
                              compression |-> task["compression"].value,
                              artifacts |-> task["artifacts"].value,
                              screenshot |-> task["screenshot"].value,
                              png |-> task["png"].value.findings],
                             softwareOf(metadataAnalysis)) @@ [present |-> TRUE]
    /\ fpc' = "returned"
    /\ UNCHANGED <<pc, image, clock, metadataAnalysis, task, result, response, call, ret>>

\* const result = scoreResults(metadataAnalysis, forensicsAnalysis)
Score ==
    /\ pc = "forensics" /\ fpc = "returned"
    /\ result' = scoreResults(metadataAnalysis, forensicsAnalysis)
    /\ pc' = "respond"
    /\ UNCHANGED <<image, clock, metadataAnalysis, fpc, task, forensicsAnalysis, response, call, ret>>

\* return NextResponse.json(result)
Respond ==
    /\ pc = "respond"
    /\ response' = [present |-> TRUE, code |-> 200]
    /\ pc' = "done"
    /\ UNCHANGED <<image, clock, metadataAnalysis, fpc, task, forensicsAnalysis, result, call, ret>>

Next ==
    \/ Receive
    \/ AnalyzeMetadata
    \/ ForensicsBegin
    \/ FanOut
    \/ \E t \in AsyncTasks : TaskFinish(t)
    \/ Join
    \/ Score
    \/ Respond

Spec == Init /\ [][Next]_vars

(***************************************************************************)
(* scoreResults applied to the results of the two analyzers on every image *)
(* that satisfies IsScoreImage (no sub-analysis failing).                  *)
(***************************************************************************)
InitScore ==
    /\ pc = "forensics"
    /\ IsScoreImage(image)
    /\ clock = 1000
    /\ metadataAnalysis = analyzeMetadata(image, clock) @@ [present |-> TRUE]
    /\ fpc = "returned"
    /\ task = [t \in Tasks |-> idleTask]
    /\ forensicsAnalysis = analyzeForensicsOf(image, metadataAnalysis, {}) @@ [present |-> TRUE]
    /\ result = Absent
    /\ response = Absent
    /\ call = Absent
    /\ ret = Absent

NextScore == Score

SpecScore == InitScore /\ [][NextScore]_vars

(***************************************************************************)
(* The helpers convertDMSToDecimal and parseEXIFDate, each called once on  *)
(* an argument of the sets below.  On every DMS triple of DMSCases the     *)
(* exact sum and its rounding agree with IEEE double arithmetic.           *)
(***************************************************************************)
Rat(n, d) == [n |-> n, d |-> d]

DMSCases ==
    { Absent, [present |-> TRUE, list |-> <<Rat(40, 1), Rat(26, 1)>>] }
    \cup { [present |-> TRUE, list |-> <<deg, min, sec>>] :
             deg \in {Rat(0, 1), Rat(40, 1)},
             min \in {Rat(0, 1), Rat(26, 1)},
             sec \in {Rat(0, 1), Rat(4600, 100), Rat(4599, 100), Rat(18, 10000), Rat(54, 10000)} }

Refs == {"N", "S", "E", "W"}

Num(v) == [kind |-> "number", value |-> v]

\* "2024:01:15" and "14:30:45"
dateTokens == <<Num(2024), Num(1), Num(15)>>
timeTokens == <<Num(14), Num(30), Num(45)>>

DateStr(parts) == [present |-> TRUE, parts |-> parts]

DateCases ==
    { Absent,
      DateStr(<<dateTokens, timeTokens>>),                         \* "2024:01:15 14:30:45"
      DateStr(<<dateTokens>>),                                     \* "2024:01:15"
      DateStr(<<dateTokens, timeTokens, <<Num(0)>> >>),            \* "2024:01:15 14:30:45 0"
      DateStr(<<SubSeq(dateTokens, 1, 2), timeTokens>>),           \* "2024:01 14:30:45"
      DateStr(<<dateTokens, SubSeq(timeTokens, 1, 2)>>),           \* "2024:01:15 14:30"
      DateStr(<<dateTokens, <<Num(14), Num(30), [kind |-> "prefixed", value |-> 45]>> >>),
                                                                   \* "2024:01:15 14:30:45Z"
      DateStr(<<dateTokens, <<Num(14), Num(30), [kind |-> "text", value |-> 0]>> >>),
                                                                   \* "2024:01:15 14:30:xx"
      DateStr(<<[i \in 1..3 |-> [kind |-> "text", value |-> 0]],
                [i \in 1..3 |-> [kind |-> "text", value |-> 0]]>>) }  \* "abcd:ef:gh ij:kl:mn"

InitConv ==
    /\ call \in { [present |-> TRUE, fn |-> "convertDMSToDecimal", dms |-> dms, ref |-> ref] :
                    dms \in DMSCases, ref \in Refs }
              \cup { [present |-> TRUE, fn |-> "parseEXIFDate", dateStr |-> d] : d \in DateCases }
    /\ ret = Absent
    /\ pc = "start" /\ image = noImage /\ clock = 1000
    /\ metadataAnalysis = Absent /\ fpc = "idle" /\ task = [t \in Tasks |-> idleTask]
    /\ forensicsAnalysis = Absent /\ result = Absent /\ response = Absent

\* const lat = convertDMSToDecimal(gpsLatitude, gpsLatitudeRef)
ConvertDMS ==
    /\ call.fn = "convertDMSToDecimal" /\ ~Has(ret)
    /\ ret' = [present |-> TRUE, value |-> convertDMSToDecimal(call.dms, call.ref)]
    /\ UNCHANGED <<pc, image, clock, metadataAnalysis, fpc, task, forensicsAnalysis, result,
                   response, call>>

\* const exifDateTimeOriginal = parseEXIFDate(...), and the field of the TimestampAnalysis
ParseDate ==
    /\ call.fn = "parseEXIFDate" /\ ~Has(ret)
    /\ LET date == parseEXIFDate(call.dateStr)
       IN ret' = [present |-> TRUE, date |-> date, field |-> timestampField(date)]
    /\ UNCHANGED <<pc, image, clock, metadataAnalysis, fpc, task, forensicsAnalysis, result,
                   response, call>>

NextConv == ConvertDMS \/ ParseDate

SpecConv == InitConv /\ [][NextConv]_vars

(***************************************************************************)
(* The byte-walking loops, on buffers of bytes: the marker walk of         *)
(* analyzeJPEGCompression, the chunk walk of parsePNGChunks and the        *)
(* segment walk of hasC2PAMetadata.  Offsets count from 0 as in the code;  *)
(* the byte at offset o of buf is buf[o + 1].  The state of a walk is      *)
(* [offset, status]: status is "loop" at the head of the while loop, and   *)
(* "exit" (the loop condition failed), "break", "return" or "throw" (a     *)
(* RangeError of a read beyond the buffer) once the loop is left.  What    *)
(* the loops collect besides the offset is left out.                       *)
(***************************************************************************)
MaxPieces == 3

JPEG_SOI == 65496

JPEG_DQT == 65499

JPEG_DHT == 65476

JPEG_SOF0 == 65472

JPEG_SOF2 == 65474

JPEG_SOS == 65498

PNG_SIGNATURE == <<137, 80, 78, 71, 13, 10, 26, 10>>

JUMBF_BOX == <<106, 117, 109, 98>>

\* buf[o], `undefined` (here -1) outside the buffer
byteAt(buf, o) == IF o >= 0 /\ o < Len(buf) THEN buf[o + 1] ELSE -1

\* a read of n bytes at offset o that does not throw
canRead(buf, o, n) == o >= 0 /\ o + n <= Len(buf)

readUInt16BE(buf, o) == 256 * buf[o + 1] + buf[o + 2]

\* saturated at 2^24 when the first byte is not 0: such a length is beyond every buffer
readUInt32BE(buf, o) ==
    (IF buf[o + 1] > 0 THEN 16777216 ELSE 0) + 65536 * buf[o + 2] + 256 * buf[o + 3] + buf[o + 4]

\* Buffer.prototype.includes on buf.subarray(from, to)
includesBox(buf, from, to, box) ==
    \E o \in from..(to - Len(box)) : \A k \in 1..Len(box) : buf[o + k] = box[k]

walkAt(offset, status) == [present |-> TRUE, offset |-> offset, status |-> status]

\* analyzeJPEGCompression up to the head of its while loop
jpegEnter(buf) ==
    IF ~canRead(buf, 0, 2) THEN walkAt(0, "throw")
    ELSE IF readUInt16BE(buf, 0) # JPEG_SOI THEN walkAt(0, "return")
    ELSE walkAt(2, "loop")

\* offset += 2 + length
jpegAdvance(offset, length) == offset + 2 + length

\* one evaluation of the loop condition and, if it holds, of the loop body
jpegIteration(buf, offset) ==
    IF ~(offset < Len(buf) - 2) THEN walkAt(offset, "exit")
    ELSE LET marker == readUInt16BE(buf, offset)
             skip == IF ~canRead(buf, offset + 2, 2) THEN walkAt(offset, "throw")
                     ELSE walkAt(jpegAdvance(offset, readUInt16BE(buf, offset + 2)), "loop")
         IN IF marker \in {JPEG_DQT, JPEG_DHT, JPEG_SOF0, JPEG_SOF2} THEN skip
            ELSE IF marker = JPEG_SOS THEN walkAt(offset, "break")
            ELSE IF marker \div 256 = 255
            THEN IF offset + 3 < Len(buf) THEN skip ELSE walkAt(offset, "break")
            ELSE walkAt(offset + 1, "loop")

\* parsePNGChunks up to the head of its while loop
pngEnter(buf) ==
    IF Len(buf) >= 8 /\ SubSeq(buf, 1, 8) = PNG_SIGNATURE THEN walkAt(8, "loop")
    ELSE walkAt(0, "return")

\* offset += 12 + length, with the data length alone as the step
pngAdvance_dataOnly(offset, length) == offset + length

\* offset += 12 + length
pngAdvance(offset, length) == offset + 12 + length

pngIteration(buf, offset) ==
    IF ~(offset + 8 <= Len(buf)) THEN walkAt(offset, "exit")
    ELSE LET length == readUInt32BE(buf, offset)
             type == SubSeq(buf, offset + 5, offset + 8)
         IN IF ~canRead(buf, offset + 8 + length, 4) THEN walkAt(offset, "throw")
            ELSE IF type = <<73, 69, 78, 68>> THEN walkAt(offset, "break")
            ELSE walkAt(pngAdvance(offset, length), "loop")

\* hasC2PAMetadata up to the head of its while loop
c2paEnter(buf) == walkAt(2, "loop")

c2paIteration(buf, offset) ==
    IF ~(offset + 2 < Len(buf)) THEN walkAt(offset, "exit")
    ELSE IF byteAt(buf, offset) = 255 /\ byteAt(buf, offset + 1) = APP13_MARKER
    THEN IF ~canRead(buf, offset + 2, 2) THEN walkAt(offset, "throw")
         ELSE LET length == readUInt16BE(buf, offset + 2)
              IN IF offset + 4 + length > Len(buf) THEN walkAt(offset, "break")
                 ELSE IF includesBox(buf, offset + 4, offset + 4 + length, JUMBF_BOX)
                 THEN walkAt(offset, "return")
                 ELSE walkAt(offset + 4 + length, "loop")
    ELSE walkAt(offset + 1, "loop")

RECURSIVE Flatten(_)
Flatten(pieces) == IF pieces = <<>> THEN <<>> ELSE Head(pieces) \o Flatten(Tail(pieces))

\* segments with length fields 0, 2 and 0xFFFF, the start of scan, stray bytes and a
\* marker cut off before its length
JPEGPieces ==
    { <<255, 219, 0, 0>>, <<255, 219, 0, 2>>, <<255, 219, 255, 255>>, <<255, 196, 0, 2>>,
      <<255, 192, 0, 0>>, <<255, 225, 0, 2>>, <<255, 225, 0, 0>>, <<255, 218>>,
      <<0>>, <<255, 219>> }

JPEGBuffers ==
    { <<255, 216>> \o Flatten(ps) : ps \in SeqsUpTo(JPEGPieces, MaxPieces) }
    \cup { <<>>, <<255>>, <<137, 80, 78, 71>> }

\* chunks as length, type, data, CRC: IHDR with one data byte, an empty tEXt, a tEXt whose
\* length field is 0xFFFFFFFF, a tEXt that claims one byte more than it has, a tEXt cut
\* off before its CRC, IEND, and a stray byte
PNGPieces ==
    { <<0, 0, 0, 1>> \o <<73, 72, 68, 82>> \o <<7>> \o <<0, 0, 0, 0>>,
      <<0, 0, 0, 0>> \o <<116, 69, 88, 116>> \o <<0, 0, 0, 0>>,
      <<255, 255, 255, 255>> \o <<116, 69, 88, 116>> \o <<0, 0, 0, 0>>,
      <<0, 0, 0, 1>> \o <<116, 69, 88, 116>> \o <<0, 0, 0, 0>>,
      <<0, 0, 0, 1>> \o <<116, 69, 88, 116>> \o <<7>>,
      <<0, 0, 0, 0>> \o <<73, 69, 78, 68>> \o <<0, 0, 0, 0>>,
      <<0>> }

PNGBuffers ==
    { PNG_SIGNATURE \o Flatten(ps) : ps \in SeqsUpTo(PNGPieces, MaxPieces) }
    \cup { <<>>, <<255, 216, 255, 219, 0, 0, 0, 0>> }

\* segments FF ED with length fields 0 and 0xFFFF, one holding a 'jumb' box, stray bytes
C2PAPieces ==
    { <<255, 237, 0, 0>>, <<255, 237, 255, 255>>, <<255, 237, 0, 4>> \o JUMBF_BOX,
      <<255, 237>>, <<0>>, <<255>> }

C2PABuffers ==
    { <<137, 80>> \o Flatten(ps) : ps \in SeqsUpTo(C2PAPieces, MaxPieces) } \cup { <<>> }

InitWalk ==
    /\ call \in { [present |-> TRUE, fn |-> "analyzeJPEGCompression", buffer |-> b] :
                    b \in JPEGBuffers }
              \cup { [present |-> TRUE, fn |-> "parsePNGChunks", buffer |-> b] : b \in PNGBuffers }
              \cup { [present |-> TRUE, fn |-> "hasC2PAMetadata", buffer |-> b] :
                       b \in C2PABuffers }
    /\ ret = Absent
    /\ pc = "start" /\ image = noImage /\ clock = 1000
    /\ metadataAnalysis = Absent /\ fpc = "idle" /\ task = [t \in Tasks |-> idleTask]
    /\ forensicsAnalysis = Absent /\ result = Absent /\ response = Absent

\* the code before the loop, then one iteration of the loop per step
JPEGMarkerStep ==
    /\ call.fn = "analyzeJPEGCompression"
    /\ Has(ret) => ret.status = "loop"
    /\ ret' = IF ~Has(ret) THEN jpegEnter(call.buffer) ELSE jpegIteration(call.buffer, ret.offset)
    /\ UNCHANGED <<pc, image, clock, metadataAnalysis, fpc, task, forensicsAnalysis, result,
                   response, call>>

PNGChunkStep ==
    /\ call.fn = "parsePNGChunks"
    /\ Has(ret) => ret.status = "loop"
    /\ ret' = IF ~Has(ret) THEN pngEnter(call.buffer) ELSE pngIteration(call.buffer, ret.offset)
    /\ UNCHANGED <<pc, image, clock, metadataAnalysis, fpc, task, forensicsAnalysis, result,
                   response, call>>

C2PASegmentStep ==
    /\ call.fn = "hasC2PAMetadata"
    /\ Has(ret) => ret.status = "loop"
    /\ ret' = IF ~Has(ret) THEN c2paEnter(call.buffer) ELSE c2paIteration(call.buffer, ret.offset)
    /\ UNCHANGED <<pc, image, clock, metadataAnalysis, fpc, task, forensicsAnalysis, result,
                   response, call>>

NextWalk == JPEGMarkerStep \/ PNGChunkStep \/ C2PASegmentStep

\* the loops are synchronous code: a walk that can take its next iteration takes it
SpecWalk == InitWalk /\ [][NextWalk]_vars /\ WF_vars(NextWalk)

(***************************************************************************)
(* Properties.                                                             *)
(***************************************************************************)
allFindingsOf(r) == r.analysis.metadata.findings \o r.analysis.forensics.findings

hasCriticalAISignature(r) ==
    Some(allFindingsOf(r), LAMBDA f : f.type = "critical" /\ f.category = "ai-signature")

highConfidenceAI(r) == r.aiDetection.isLikelyAI /\ r.aiDetection.confidence >= 75

\* C1: whenever the AI-likelihood result has isLikelyAI = true and confidence >= 75, the
\* status returned by scoreResults is REJECTED, whatever the risk score and the findings.
C1_HighConfidenceAIRejected ==
    (Has(result) /\ highConfidenceAI(result)) => result.status = "REJECTED"

\* a result rejected by the first rule alone: no critical ai-signature Finding
C1_Witness ==
    /\ Has(result) /\ highConfidenceAI(result) /\ ~hasCriticalAISignature(result)
    /\ result.status = "REJECTED"

\* C2: whenever the combined findings hold a critical ai-signature Finding, the status
\* returned by scoreResults is REJECTED.
C2_CriticalAISignatureRejected ==
    (Has(result) /\ hasCriticalAISignature(result)) => result.status = "REJECTED"

\* a result rejected by the second rule alone: the AI-likelihood confidence is below 75
C2_Witness ==
    /\ Has(result) /\ hasCriticalAISignature(result) /\ ~highConfidenceAI(result)
    /\ result.status = "REJECTED"

\* C3: when neither rejection rule applies, the status agrees with the reported fields:
\* RISKY exactly when the reported riskScore >= 45 or (isLikelyAI and confidence >= 50),
\* VERIFIED otherwise.
C3_StatusAgreesWithReportedScore ==
    (Has(result) /\ ~highConfidenceAI(result) /\ ~hasCriticalAISignature(result)) =>
        LET risky == result.riskScore >= 45
                     \/ (result.aiDetection.isLikelyAI /\ result.aiDetection.confidence >= 50)
        IN result.status = IF risky THEN "RISKY" ELSE "VERIFIED"

decoded(img) == img.present /\ img.dataUrlOk /\ img.decodable

\* C4: a failure inside any of the seven sub-analyses of analyzeForensics is caught there;
\* analyzeForensics never returns its whole-call failure result for an image that decodes,
\* and the results of the sibling sub-analyses are all in what it returns.
C4_SubAnalysisFailureIsLocal ==
    (fpc = "returned" /\ decoded(image)) =>
        /\ Has(forensicsAnalysis.forensics)
        /\ ~Some(forensicsAnalysis.findings, LAMBDA f : f.message = "Forensic analysis failed")
        /\ \A t \in Tasks : task[t].state = "done"

\* C5: when the submitted image cannot be decoded, the pipeline's output is one failed
\* status with exactly one critical Finding, and holds no verdict, risk score or
\* recommendation.
C5_UndecodableIsSingleFailure ==
    (Has(response) /\ image.present /\ ~decoded(image)) =>
        \/ ~Has(result)
        \/ /\ result.status \notin {"VERIFIED", "RISKY", "REJECTED"}
           /\ Len(allFindingsOf(result)) = 1

\* the sum of section 4.3, in hundredths, with the weight it gives a critical forensics Finding
weighted(findings, P(_), weight) ==
    SumSeq([i \in 1..Len(findings) |-> IF P(findings[i]) THEN weight * findings[i].severity ELSE 0])

statedRiskSum(m, f, criticalForensicsWeight) ==
    LET flagged(r, flag, weight) == IF Has(r) /\ flag THEN weight * r.severity ELSE 0
        ela == f.elaAnalysis
        tex == f.textureAnalysis
    IN flagged(ela, Has(ela) /\ ela.hasManipulation, 100)
       + flagged(f.frequencyAnalysis,
                 Has(f.frequencyAnalysis) /\ f.frequencyAnalysis.hasAnomalies, 100)
       + flagged(tex, Has(tex) /\ tex.isArtificial, 100)
       + flagged(f.compressionAnalysis,
                 Has(f.compressionAnalysis) /\ f.compressionAnalysis.hasInconsistency, 80)
       + flagged(f.aiArtifactAnalysis,
                 Has(f.aiArtifactAnalysis) /\ f.aiArtifactAnalysis.hasArtifacts, 130)
       + (IF Has(m.aiSignatures) /\ m.aiSignatures.list # <<>> THEN 8075 ELSE 0)
       + weighted(m.findings, LAMBDA x : x.type = "critical" /\ x.category = "ai-signature", 95)
       + weighted(m.findings, LAMBDA x : x.type = "warning", 40)
       + weighted(f.findings, LAMBDA x : x.type = "warning", 50)
       + weighted(f.findings, LAMBDA x : x.type = "critical", criticalForensicsWeight)
       + (IF Has(f.forensics) /\ f.forensics.isScreenshot THEN 4000 ELSE 0)
       + (IF Has(f.forensics) /\ f.forensics.exportToolDetected THEN 3500 ELSE 0)
       - (IF m.hasEXIF THEN 1500 ELSE 0)
       - (IF m.hasGPS THEN 1500 ELSE 0)
       - (IF Has(m.cameraInfo) /\ m.cameraInfo.make /\ m.cameraInfo.model THEN 2000 ELSE 0)
       - (IF Has(tex) /\ tex.naturalness25600 > 70 * 25600 THEN 1500 ELSE 0)
       - (IF Has(ela) /\ ~ela.hasManipulation /\ ela.variance10 < 100 THEN 1000 ELSE 0)

statedRiskScore(criticalForensicsWeight) ==
    Max(0, Min(10000, statedRiskSum(metadataAnalysis, forensicsAnalysis, criticalForensicsWeight)))

\* C6 as stated: calculateRiskScore is the listed sum clamped to [0,100], to which no
\* critical forensics Finding contributes.
C6_RiskScoreIsListedSum ==
    Has(result) =>
        /\ calculateRiskScore(metadataAnalysis, forensicsAnalysis) = statedRiskScore(0)
        /\ result.riskScore = Round100(statedRiskScore(0))

\* C6 amended: calculateRiskScore is the listed sum plus severity * 1.0 for each critical
\* forensics Finding, clamped to [0,100]; scoreResults reports it rounded.
C6_RiskScoreIsListedSumPlusCriticalForensics ==
    Has(result) =>
        /\ calculateRiskScore(metadataAnalysis, forensicsAnalysis) = statedRiskScore(100)
        /\ result.riskScore = Round100(statedRiskScore(100))

\* a scored image with a critical forensics Finding whose weight shows below the clamp
C6_Witness ==
    /\ Has(result)
    /\ Some(forensicsAnalysis.findings, LAMBDA f : f.type = "critical")
    /\ result.riskScore < 100
    /\ result.riskScore > Round100(statedRiskScore(0))

flaggedSignals(m, f) ==
    Cardinality({ k \in 1..6 :
        CASE k = 1 -> Has(m.aiSignatures) /\ m.aiSignatures.list # <<>>
          [] k = 2 -> Has(f.elaAnalysis) /\ f.elaAnalysis.hasManipulation
          [] k = 3 -> Has(f.frequencyAnalysis) /\ f.frequencyAnalysis.hasAnomalies
          [] k = 4 -> Has(f.textureAnalysis) /\ f.textureAnalysis.isArtificial
          [] k = 5 -> Has(f.aiArtifactAnalysis) /\ f.aiArtifactAnalysis.hasArtifacts
          [] k = 6 -> Has(f.compressionAnalysis) /\ f.compressionAnalysis.hasInconsistency })

\* C7: in detectAIGeneration each flagged signal of the six increments the method counter
\* by exactly one and an unflagged one by nothing, so the counter is the number of flagged
\* signals, is at most 6 and is the number of detection methods listed.
C7_OneCountPerFlaggedSignal ==
    Has(result) =>
        LET s == aiSignals(metadataAnalysis, forensicsAnalysis)
        IN /\ s.methodCount = flaggedSignals(metadataAnalysis, forensicsAnalysis)
           /\ s.methodCount <= 6
           /\ s.methodCount = Len(result.aiDetection.detectionMethods)

\* C8: isLikelyAI is true exactly when (at least 2 methods fired and the adjusted
\* confidence >= 55) or (at least 3 fired and it is >= 45) or (a metadata AI signature is
\* present and it is >= 70).
C8_IsLikelyAIExactly ==
    Has(result) =>
        LET s == aiSignals(metadataAnalysis, forensicsAnalysis)
            adj == adjustedConfidence(s.totalScore10, s.methodCount)
            fired == Len(result.aiDetection.detectionMethods)
            signature == Has(metadataAnalysis.aiSignatures)
                         /\ metadataAnalysis.aiSignatures.list # <<>>
        IN result.aiDetection.isLikelyAI <=>
               \/ fired >= 2 /\ adj.num >= 55 * adj.den
               \/ fired >= 3 /\ adj.num >= 45 * adj.den
               \/ signature /\ adj.num >= 70 * adj.den

\* isLikelyAI by the three-method rule alone: no signature, adjusted confidence in [45, 55)
C8_Witness ==
    /\ Has(result) /\ result.aiDetection.isLikelyAI
    /\ ~hasSignatures(metadataAnalysis)
    /\ LET s == aiSignals(metadataAnalysis, forensicsAnalysis)
           adj == adjustedConfidence(s.totalScore10, s.methodCount)
       IN adj.num < 55 * adj.den

InPercent(x) == x \in 0..100

\* C9: confidence, riskScore and aiDetection.confidence of every VerificationResult, and
\* the severity of every Finding and per-algorithm result, lie within [0,100].
C9_ValuesWithinPercent ==
    Has(result) =>
        LET f == result.analysis.forensics
            all == allFindingsOf(result)
        IN /\ InPercent(result.confidence) /\ InPercent(result.riskScore)
           /\ InPercent(result.aiDetection.confidence)
           /\ \A i \in 1..Len(all) : InPercent(all[i].severity)
           /\ \A r \in {f.elaAnalysis, f.frequencyAnalysis, f.textureAnalysis,
                        f.compressionAnalysis, f.aiArtifactAnalysis} :
                  Has(r) => InPercent(r.severity)

\* a RISKY result whose blend of risk score and adjustments exceeds 100 before the clamp
C9_Witness ==
    /\ Has(result) /\ result.status = "RISKY"
    /\ result.riskScore >= 90 /\ result.confidence = 100

\* C10: every VerificationResult has all of its fields, the nested forensics result's ELA,
\* frequency, texture and AI-artifact results and forensic summary included.
C10_AllFieldsPresent ==
    Has(result) =>
        LET f == result.analysis.forensics
        IN /\ Has(f.elaAnalysis) /\ Has(f.frequencyAnalysis) /\ Has(f.textureAnalysis)
           /\ Has(f.aiArtifactAnalysis) /\ Has(f.forensics)

\* the JPEG path of analyzeMetadata was taken and piexif.load returned
exifRead == Has(metadataAnalysis) /\ image.dataUrlOk /\ image.isJPEG /\ image.exif.parses

matchesCategory(software, categories) ==
    /\ Has(software)
    /\ \E c \in 1..Len(AI_TOOLS_SIGNATURES) :
           /\ AI_TOOLS_SIGNATURES[c].category \in categories
           /\ \E k \in 1..Len(AI_TOOLS_SIGNATURES[c].tools) :
                  AI_TOOLS_SIGNATURES[c].tools[k] \in software.str

matchesAITool(software) == matchesCategory(software, {"DIFFUSION", "GENERATIVE", "AI_MARKERS"})

criticalAISignatures(findings) ==
    Count(findings, LAMBDA f : f.type = "critical" /\ f.category = "ai-signature")

\* C11: in the JPEG path of analyzeMetadata a Software string that matches only the
\* export/screenshot list gives the severity-50 warning and nothing else: critical
\* ai-signature Findings and AISignature records are emitted only for AI-category matches.
C11_ExportToolGivesWarningOnly ==
    exifRead =>
        /\ matchesCategory(image.exif.software, {"EXPORT_TOOLS"}) =>
               Some(metadataAnalysis.findings,
                    LAMBDA f : f.type = "warning" /\ f.severity = 50
                               /\ f.message = "Export tool detected")
        /\ ~matchesAITool(image.exif.software) =>
               /\ criticalAISignatures(metadataAnalysis.findings) = 0
               /\ metadataAnalysis.aiSignatures.list = <<>>

\* C12: a JPEG whose Software field is a keyword of the diffusion list gets a critical
\* ai-signature Finding of severity 100, an AISignature of confidence 95, and status failed.
C12_DiffusionSoftwareFails ==
    (exifRead /\ matchesCategory(image.exif.software, {"DIFFUSION"})) =>
        /\ Some(metadataAnalysis.findings,
                LAMBDA f : f.type = "critical" /\ f.category = "ai-signature" /\ f.severity = 100)
        /\ Some(metadataAnalysis.aiSignatures.list, LAMBDA a : a.confidence = 95)
        /\ metadataAnalysis.status = "failed"

\* the metadata result of a JPEG whose Software names a diffusion tool
C12_Witness ==
    /\ exifRead /\ matchesCategory(image.exif.software, {"DIFFUSION"})
    /\ metadataAnalysis.status = "failed"
    /\ Len(metadataAnalysis.aiSignatures.list) = 1

textChunks(png) == SelectSeq(png.chunks, LAMBDA c : c.type \in {"tEXt", "zTXt", "iTXt"})

\* a PNG that is read to its end and whose only text chunk is one tEXt chunk with AI keywords
singleAITextChunk ==
    /\ Has(metadataAnalysis) /\ image.dataUrlOk /\ ~image.isJPEG
    /\ image.png.sigOk /\ ~image.png.truncated
    /\ Len(textChunks(image.png)) = 1
    /\ LET c == textChunks(image.png)[1]
       IN c.type = "tEXt" /\ c.keyword # "" /\ "steps:" \in c.text

\* C13: for a PNG whose only text chunk is one tEXt chunk with AI-generation keywords,
\* analyzeMetadata gives exactly one critical Finding "AI generation parameters detected
\* in PNG chunks" and status failed.
C13_OneFindingPerTextChunk ==
    singleAITextChunk =>
        /\ Count(metadataAnalysis.findings,
                 LAMBDA f : f.type = "critical"
                            /\ f.message = "AI generation parameters detected in PNG chunks") = 1
        /\ metadataAnalysis.status = "failed"

statusFromFindings(findings, analysisFailed) ==
    IF criticalAISignatures(findings) > 0 \/ analysisFailed THEN "failed"
    ELSE IF \E i \in 1..Len(findings) : findings[i].severity >= 40 THEN "warning"
    ELSE "passed"

\* C14 as stated: the status of every MetadataAnalysisResult is failed iff some Finding is
\* critical with category ai-signature, else warning iff some severity >= 40, else passed.
C14_StatusFromFindingsAlone ==
    Has(metadataAnalysis) =>
        metadataAnalysis.status = statusFromFindings(metadataAnalysis.findings, FALSE)

metadataAnalysisFailed ==
    metadataAnalysis.findings = <<Finding("critical", 100, "metadata", "Metadata analysis failed")>>

\* C14 amended: the status is failed iff some Finding is critical with category
\* ai-signature or the result is the failure result of analyzeMetadata (its single
\* critical Finding "Metadata analysis failed"); else warning iff some severity >= 40;
\* else passed.
C14_StatusFromFindingsOrFailure ==
    Has(metadataAnalysis) =>
        metadataAnalysis.status =
            statusFromFindings(metadataAnalysis.findings, metadataAnalysisFailed)

\* the failure result: failed without any ai-signature Finding
C14_Witness ==
    /\ Has(metadataAnalysis) /\ metadataAnalysisFailed
    /\ criticalAISignatures(metadataAnalysis.findings) = 0
    /\ metadataAnalysis.status = "failed"

\* C15: malformed embedded metadata (unparseable EXIF, a malformed or truncated PNG chunk)
\* never makes analyzeMetadata fail: no critical Finding and no failed status comes from
\* the parse failure.
C15_ParseFailureIsLocal ==
    (Has(metadataAnalysis) /\ image.dataUrlOk) =>
        /\ ~metadataAnalysisFailed
        /\ metadataAnalysis.status = "failed" =>
               criticalAISignatures(metadataAnalysis.findings) > 0

\* C16: analyzeForensics returns only after every sub-analysis it started has finished.
C16_ReturnsAfterJoin ==
    fpc = "returned" => \A t \in Tasks : task[t].state # "running"

\* what analyzeForensics returns as a function of its arguments and of the set of
\* sub-analyses that took their catch block
forensicsOfInput ==
    LET png == IF format(image) = "png" THEN analyzePNGSpecific(image.png)
               ELSE [threw |-> FALSE, findings |-> <<>>]
        sub(t, value, neutral) == IF task[t].failed THEN neutral ELSE value
    IN IF ~decoded(image) \/ png.threw THEN forensicsFailure
       ELSE assembleForensics(
                [ela |-> sub("ela", analyzeELA(image.px.ela), neutralELA),
                 frequency |-> sub("frequency", analyzeFrequencyDomain(image.px.frequency),
                                   neutralFrequency),
                 texture |-> sub("texture", analyzeTexturePatterns(image.px.texture),
                                 neutralTexture),
                 compression |-> IF format(image) = "jpeg"
                                 THEN sub("compression", analyzeJPEGCompression(image.quant),
                                          neutralCompression)
                                 ELSE Absent,
                 artifacts |-> sub("artifacts", detectAIArtifacts(image.px.artifacts),
                                   neutralArtifacts),
                 screenshot |-> detectScreenshot(image.width, image.height,
                                                 cameraMakeOf(metadataAnalysis),
                                                 softwareOf(metadataAnalysis)),
                 png |-> png.findings],
                softwareOf(metadataAnalysis))

Clocks == {50, 1000}

\* the three stages of the handler run at time `now`, no sub-analysis failing
pipelineAt(now) ==
    LET m == analyzeMetadata(image, now) @@ [present |-> TRUE]
    IN scoreResults(m, analyzeForensicsOf(image, m, {}) @@ [present |-> TRUE])

\* C18: the pipeline is a deterministic function of the image: run at any time it gives
\* the same status, riskScore, confidence and findings.
C18_PipelineIndependentOfTime ==
    Has(result) =>
        \A now \in Clocks :
            LET other == pipelineAt(now)
            IN /\ other.status = result.status
               /\ other.riskScore = result.riskScore
               /\ other.confidence = result.confidence
               /\ allFindingsOf(other) = allFindingsOf(result)

converted == Has(ret) /\ call.fn = "convertDMSToDecimal" /\ Has(ret.value)

mirror(ref) == CASE ref = "N" -> "S" [] ref = "S" -> "N" [] ref = "E" -> "W" [] OTHER -> "E"

\* C19: convertDMSToDecimal returns deg + min/60 + sec/3600 rounded to 6 decimal places,
\* and the result for reference S (or W) is the exact negation of the result for N (or E);
\* 40, 26, 46.00 gives 40.446111 for N.
C19_SouthNegatesNorth ==
    converted =>
        /\ ret.value.micro = 0 - convertDMSToDecimal(call.dms, mirror(call.ref)).micro
        /\ (call.dms.list = <<Rat(40, 1), Rat(26, 1), Rat(4600, 100)>> /\ call.ref = "N") =>
               ret.value.micro = 40446111

parsed == Has(ret) /\ call.fn = "parseEXIFDate"

wellFormedDate(dateStr) ==
    /\ Has(dateStr) /\ Len(dateStr.parts) = 2
    /\ \A p \in 1..2 :
           /\ Len(dateStr.parts[p]) = 3
           /\ \A k \in 1..3 : dateStr.parts[p][k].kind = "number"

\* C20: for every input that is not a well-formed `YYYY:MM:DD HH:MM:SS` date-time with
\* numeric fields parseEXIFDate returns null, and a timestamp field of the
\* TimestampAnalysis is present only when a valid date-time was parsed.
C20_MalformedDateIsAbsent ==
    parsed =>
        /\ ~wellFormedDate(call.dateStr) => ret.date = NoTime
        /\ Has(ret.field) => (wellFormedDate(call.dateStr) /\ ret.field.date >= 0)

\* the texture sub-analysis ran to its end on a raster of one intensity
flatAnalyzed ==
    /\ task["texture"].state = "done" /\ ~task["texture"].failed
    /\ \E v \in {0, 128, 255} : image.px.texture = flatTexture(v)

\* C21: for a raster in which every pixel has the same intensity, analyzeTexturePatterns
\* returns isArtificial = true with a naturalness score below 40.
C21_FlatRasterBelow40 ==
    flatAnalyzed => /\ task["texture"].value.isArtificial
                    /\ task["texture"].value.naturalness25600 < 40 * 25600

\* the flat raster is flagged, through its dominance and its repetition
C21_FlatRasterIsArtificial ==
    flatAnalyzed => task["texture"].value.isArtificial

\* the flat raster analysed: naturalness 40 + 30/256
C21_Witness ==
    /\ flatAnalyzed
    /\ task["texture"].value.naturalness25600 = 40 * 25600 + 3000

\* the forensics result with the sub-results of the given sub-analyses left out
withoutSubResults(f, ts) ==
    [f EXCEPT !.elaAnalysis = IF "ela" \in ts THEN Absent ELSE @,
              !.frequencyAnalysis = IF "frequency" \in ts THEN Absent ELSE @,
              !.textureAnalysis = IF "texture" \in ts THEN Absent ELSE @,
              !.compressionAnalysis = IF "compression" \in ts THEN Absent ELSE @,
              !.aiArtifactAnalysis = IF "artifacts" \in ts THEN Absent ELSE @]

failedTasks == { t \in AsyncTasks : task[t].failed }

\* the joined result of a call in which some sub-analysis took its catch block was scored
scoredWithFailure ==
    /\ Has(result) /\ failedTasks # {}
    /\ \A t \in Tasks : task[t].state = "done"

\* C22: a sub-analysis that failed and was replaced by its neutral result contributes
\* nothing: scoreResults gives the same riskScore and the same AI-likelihood as it does
\* with that sub-result absent.
C22_NeutralResultContributesNothing ==
    scoredWithFailure =>
        LET without == scoreResults(metadataAnalysis,
                                    withoutSubResults(forensicsAnalysis, failedTasks))
        IN /\ result.riskScore = without.riskScore
           /\ result.aiDetection.isLikelyAI = without.aiDetection.isLikelyAI
           /\ result.aiDetection.confidence = without.aiDetection.confidence

\* the AI-likelihood is that of the result without the failed sub-results, and so is the
\* riskScore when the error-level analysis is not among the failed ones
C22_OnlyELAFailureChangesRisk ==
    scoredWithFailure =>
        LET without == scoreResults(metadataAnalysis,
                                    withoutSubResults(forensicsAnalysis, failedTasks))
        IN /\ result.aiDetection = without.aiDetection
           /\ "ela" \notin failedTasks => result.riskScore = without.riskScore

\* a failed error-level analysis lowers the risk score by 10
C22_Witness ==
    /\ scoredWithFailure /\ failedTasks = {"ela"}
    /\ result.riskScore + 10 =
           scoreResults(metadataAnalysis,
                        withoutSubResults(forensicsAnalysis, failedTasks)).riskScore

\* C23: whenever the metadata result contains at least one AISignature, scoreResults
\* returns REJECTED with riskScore 100, whatever risk-reducing factors are present.
C23_SignatureRejectedAtFullRisk ==
    (Has(result) /\ hasSignatures(metadataAnalysis)) =>
        result.status = "REJECTED" /\ result.riskScore = 100

\* a signature scored although every risk-reducing factor is present
C23_Witness ==
    /\ Has(result) /\ hasSignatures(metadataAnalysis)
    /\ metadataAnalysis.hasEXIF /\ metadataAnalysis.hasGPS
    /\ Has(metadataAnalysis.cameraInfo)
    /\ metadataAnalysis.cameraInfo.make /\ metadataAnalysis.cameraInfo.model
    /\ Has(forensicsAnalysis.textureAnalysis)
    /\ forensicsAnalysis.textureAnalysis.naturalness25600 > 70 * 25600
    /\ Has(forensicsAnalysis.elaAnalysis)
    /\ ~forensicsAnalysis.elaAnalysis.hasManipulation
    /\ forensicsAnalysis.elaAnalysis.variance10 < 100
    /\ riskSum(metadataAnalysis, forensicsAnalysis) < 11000

\* analyzeForensics returned through its catch block
forensicsFailed == forensicsAnalysis = forensicsFailure @@ [present |-> TRUE]

\* C24: the whole-call failure result of analyzeForensics is never scored VERIFIED,
\* whatever the metadata result is.
C24_ForensicsFailureNeverVerified ==
    (Has(result) /\ forensicsFailed) => result.status # "VERIFIED"

\* the failure result scored with every reduction the metadata can earn: 100 - 50
C24_Witness ==
    /\ Has(result) /\ forensicsFailed
    /\ metadataAnalysis.hasEXIF /\ metadataAnalysis.hasGPS
    /\ Has(metadataAnalysis.cameraInfo)
    /\ metadataAnalysis.cameraInfo.make /\ metadataAnalysis.cameraInfo.model
    /\ result.riskScore = 50 /\ result.status = "RISKY"

\* C25: scoreResults never returns VERIFIED together with aiDetection.isLikelyAI = true.
C25_VerifiedIsNotLikelyAI ==
    Has(result) => ~(result.status = "VERIFIED" /\ result.aiDetection.isLikelyAI)

\* isLikelyAI below the rejection confidence, with no signature and with the reductions of
\* EXIF, GPS and a known camera: the status is left to the risk branches, which give RISKY
C25_Witness ==
    /\ Has(result) /\ result.aiDetection.isLikelyAI
    /\ result.aiDetection.confidence < 75
    /\ ~hasSignatures(metadataAnalysis)
    /\ metadataAnalysis.hasEXIF /\ metadataAnalysis.hasGPS
    /\ Has(metadataAnalysis.cameraInfo)
    /\ metadataAnalysis.cameraInfo.make /\ metadataAnalysis.cameraInfo.model
    /\ result.status = "RISKY"

scanOrder == <<"DIFFUSION", "GENERATIVE", "EDITING", "EXPORT_TOOLS", "AI_MARKERS">>

\* the first category of the scan order that has a keyword contained in the string
firstCategory(software) ==
    scanOrder[CHOOSE i \in 1..Len(scanOrder) :
                  /\ matchesCategory(software, {scanOrder[i]})
                  /\ \A j \in 1..(i - 1) : ~matchesCategory(software, {scanOrder[j]})]

statedConfidence(category) ==
    CASE category \in {"DIFFUSION", "GENERATIVE"} -> 95
      [] category = "EDITING" -> 40
      [] category = "EXPORT_TOOLS" -> 30
      [] category = "AI_MARKERS" -> 90

\* the Software field of a JPEG was read and holds a keyword of some category
softwareMatched ==
    exifRead /\ matchesCategory(image.exif.software, { scanOrder[i] : i \in 1..Len(scanOrder) })

\* C26: the tool type and the confidence of the recorded AISignature are those of the first
\* category, in the scan order, that has a keyword contained in the Software string:
\* 95 for diffusion and generative, 40 for editing, 30 for export, 90 for generic markers.
C26_SignatureOfFirstCategory ==
    softwareMatched =>
        LET c == firstCategory(image.exif.software)
        IN metadataAnalysis.aiSignatures.list = <<AISignature(categoryType(c), statedConfidence(c))>>

\* the tool type is that of the first matching category, and so is the confidence that
\* detectAITool returns
C26_TypeOfFirstCategory ==
    softwareMatched =>
        LET c == firstCategory(image.exif.software)
        IN /\ Len(metadataAnalysis.aiSignatures.list) = 1
           /\ metadataAnalysis.aiSignatures.list[1].toolType = categoryType(c)
           /\ detectAITool(image.exif.software).confidence = statedConfidence(c)

\* a Software string with keywords of the editing and of the export list: the signature
\* is of type editing and has confidence 95
C26_Witness ==
    /\ softwareMatched
    /\ matchesCategory(image.exif.software, {"EDITING"})
    /\ matchesCategory(image.exif.software, {"EXPORT_TOOLS"})
    /\ metadataAnalysis.aiSignatures.list = <<AISignature("editing", 95)>>

\* analyzePNGSpecific returned its Findings for the submitted PNG
pngScanned ==
    /\ format(image) = "png" /\ image.png.sigOk
    /\ task["png"].state = "done" /\ ~task["png"].failed

hasIHDRChunk(png) == \E i \in 1..Len(png.chunks) : png.chunks[i].type = "IHDR"

missingIHDRWarning(findings) ==
    Some(findings, LAMBDA f : f.type = "warning" /\ f.severity = 50
                              /\ f.message = "PNG missing IHDR chunk")

\* some text chunk of the PNG contains a keyword of the forensic AI-keyword list
aiKeywordInText(png) ==
    \E i \in 1..Len(png.chunks) :
        isTextChunk(png.chunks[i].type) /\ IncludesAny(png.chunks[i].text, aiKeywords)

\* C27: analyzePNGSpecific emits the 'missing IHDR' warning of severity 50 if and only if
\* the PNG has no IHDR chunk; a PNG with its IHDR chunk and no AI keyword in its text
\* chunks yields no Finding from this scan.
C27_IHDRWarningIffMissing ==
    pngScanned =>
        /\ missingIHDRWarning(task["png"].value.findings) <=> ~hasIHDRChunk(image.png)
        /\ (hasIHDRChunk(image.png) /\ ~aiKeywordInText(image.png)) =>
               task["png"].value.findings = <<>>

\* the warning is emitted for every PNG the scan reads to its end without a read error
C27_IHDRWarningAlways ==
    pngScanned => missingIHDRWarning(task["png"].value.findings)

\* a PNG made of IHDR and IEND gets the warning
C27_Witness ==
    /\ pngScanned
    /\ image.png.chunks = <<Chunk("IHDR", "", {}), Chunk("IEND", "", {})>>
    /\ missingIHDRWarning(task["png"].value.findings)

\* the PNG path of analyzeMetadata ran to its end
pngPathTaken ==
    /\ Has(metadataAnalysis) /\ image.dataUrlOk /\ ~image.isJPEG
    /\ ~parsePNGChunks(image.png).threw

\* the file holds a segment with marker FF ED whose data contains a JUMBF box
hasJUMBFSegment(img) == 237 \in img.markerBytes /\ img.jumbf

c2paWarning(findings) ==
    Some(findings, LAMBDA f : f.type = "warning" /\ f.severity = 45
                              /\ f.message = "C2PA/JUMBF metadata detected")

\* C28: in the PNG path of analyzeMetadata a file that contains a content-authenticity
\* container marker gets the warning Finding of severity 45, and a file without such a
\* marker does not.
C28_JUMBFWarningIffMarker ==
    pngPathTaken => (c2paWarning(metadataAnalysis.findings) <=> hasJUMBFSegment(image))

\* the warning is never emitted
C28_JUMBFWarningNever ==
    Has(metadataAnalysis) => ~c2paWarning(metadataAnalysis.findings)

\* a file with the JUMBF segment analysed without the warning
C28_Witness ==
    /\ pngPathTaken /\ hasJUMBFSegment(image)
    /\ ~c2paWarning(metadataAnalysis.findings)

\* analyzeFrequencyDomain returned from its try block
frequencyAnalyzed == task["frequency"].state = "done" /\ ~task["frequency"].failed

\* C29: in every result of analyzeFrequencyDomain that did not fail, anomalyType is 'none'
\* if and only if hasAnomalies is false.
C29_AnomalyTypeNoneIffNoAnomaly ==
    frequencyAnalyzed =>
        (task["frequency"].value.anomalyType = "none" <=> ~task["frequency"].value.hasAnomalies)

\* a result that names a type is flagged
C29_TypedAnomalyIsFlagged ==
    frequencyAnalyzed =>
        (task["frequency"].value.anomalyType # "none" => task["frequency"].value.hasAnomalies)

\* a grid score between the flagging threshold 40 and the naming threshold 50: flagged
\* with type 'none'
C29_Witness ==
    /\ frequencyAnalyzed
    /\ image.px.frequency.grid > 40 /\ image.px.frequency.grid <= 50
    /\ task["frequency"].value.hasAnomalies
    /\ task["frequency"].value.anomalyType = "none"

\* a walk is at the head of its loop
walking == Has(ret) /\ ret.status = "loop"

\* C30: the byte-walking loops terminate on every finite buffer: every iteration of the
\* JPEG marker walk, the PNG chunk walk and the C2PA segment walk either strictly increases
\* the offset or leaves the loop, for all length fields including 0 and the maximum value,
\* and every walk leaves its loop.
C30_WalksTerminate ==
    /\ [][walking => (ret'.offset > ret.offset \/ ret'.status # "loop")]_vars
    /\ <>(Has(ret) /\ ret.status # "loop")

\* the offset of a walk at the head of its loop is bounded
C30_OffsetBounded ==
    walking => ret.offset >= 0 /\ ret.offset <= 2 * 16777216 + Len(call.buffer)

\* a PNG walk that stepped over a chunk of length 0 and left the loop at a chunk whose
\* length field is 0xFFFFFFFF
C30_Witness ==
    /\ Has(call) /\ call.fn = "parsePNGChunks" /\ Has(ret)
    /\ Len(call.buffer) >= 32
    /\ readUInt32BE(call.buffer, 8) = 0
    /\ SubSeq(call.buffer, 21, 24) = <<255, 255, 255, 255>>
    /\ ret.offset = 20 /\ ret.status = "throw"

====
